---- MODULE Spec2Model ----
(***************************************************************************)
(* A model of the filter-and-aggregate pipeline of the Dubai real-estate   *)
(* dashboards (src/dashboards/*.py, src/utils.py).  A pandas DataFrame is  *)
(* a record [columns, rows]: the set of column names and the sequence of   *)
(* rows, each row a function from the column names to the cell values.     *)
(* One action is one run of a dashboard function with the widget values    *)
(* chosen by the user.                                                     *)
(***************************************************************************)
EXTENDS Integers, Sequences, FiniteSets, TLC

VARIABLES transactions, rentals, out, disk, heap, sessions

vars == <<transactions, rentals, out, disk, heap, sessions>>

\* the files of the working directory, the objects of the server process and
\* the script runs of the browser sessions; a run of one dashboard function
\* on given tables leaves them alone
server == <<disk, heap, sessions>>

ServerIdle == disk = <<>> /\ heap = <<>> /\ sessions = <<>>

(***************************************************************************)
(* Bounds and value domains                                                *)
(***************************************************************************)
\* most rows of the transactions table of the sales dashboard
MaxRows == 2
\* most rows of the transactions table when the price segments are followed
MaxSegmentRows == 3
\* pandas' missing value in a text column
NaN == "NaN"
\* the selectbox entry that switches a filter off
All == "All"

\* group keys in ascending lexical order
AreaNames == <<"A", "B">>
PropertyTypeNames == <<"Land", "Villa">>
ProjectNames == <<"P1", "P2">>
SubTypeNames == <<"Flat", "Office", "Villa">>

\* instance_date as a day number
Days == {1, 2}

Range(s) == {s[i] : i \in DOMAIN s}

NonEmptySeqsUpTo(S, n) == UNION {[1..k -> S] : k \in 1..n}

(***************************************************************************)
(* pandas primitives                                                       *)
(***************************************************************************)
\* df[mask]: the rows whose entry in the boolean mask is true, in the order
\* of df
BoolIndex(rows, mask) ==
    LET idx == SelectSeq([i \in 1..Len(rows) |-> i], LAMBDA i : mask[i])
    IN  [k \in 1..Len(idx) |-> rows[idx[k]]]

\* Series.dropna().unique(), sorted(): the values of a column that are not
\* missing, in ascending order
SortedUnique(rows, col, names) ==
    SelectSeq(names, LAMBDA k : \E i \in DOMAIN rows : rows[i][col] = k)

\* a number as a fraction; pandas' NaN is 0/0
Frac(n, d) == [num |-> n, den |-> d]

NaNf == Frac(0, 0)

IsNaN(x) == x.den = 0

\* x == y on floats: NaN equals nothing
FracEq(x, y) == ~IsNaN(x) /\ ~IsNaN(y) /\ x.num * y.den = y.num * x.den

\* x > y on floats: false when one side is NaN
FracGt(x, y) == ~IsNaN(x) /\ ~IsNaN(y) /\ x.num * y.den > y.num * x.den

\* the last value of the column in place of the sum
SumColLast(rows, col) == IF rows = <<>> THEN 0 ELSE rows[Len(rows)][col]

RECURSIVE SumCol(_, _)
\* Series.sum(): 0 over no rows
SumCol(rows, col) ==
    IF rows = <<>> THEN 0 ELSE Head(rows)[col] + SumCol(Tail(rows), col)

\* Series.mean(): NaN over no rows
MeanCol(rows, col) ==
    IF rows = <<>> THEN NaNf ELSE Frac(SumCol(rows, col), Len(rows))

\* Series.min(): NaN over no rows
MinCol(rows, col) ==
    IF rows = <<>> THEN NaNf
    ELSE Frac(CHOOSE v \in {rows[i][col] : i \in DOMAIN rows} :
                  \A j \in DOMAIN rows : v <= rows[j][col], 1)

\* Series.max(): NaN over no rows
MaxCol(rows, col) ==
    IF rows = <<>> THEN NaNf
    ELSE Frac(CHOOSE v \in {rows[i][col] : i \in DOMAIN rows} :
                  \A j \in DOMAIN rows : v >= rows[j][col], 1)

\* Series.median(): NaN over no rows, the middle value or the mean of the two
\* middle values
MedianCol(rows, col) ==
    IF rows = <<>> THEN NaNf
    ELSE LET n == Len(rows)
             \* the k-th smallest value: at least k values are <= it and at
             \* least n - k + 1 are >= it
             Kth(k) == CHOOSE v \in {rows[i][col] : i \in DOMAIN rows} :
                           /\ Cardinality({i \in DOMAIN rows : rows[i][col] <= v}) >= k
                           /\ Cardinality({i \in DOMAIN rows : rows[i][col] >= v}) >= n - k + 1
         IN  IF n % 2 = 1 THEN Frac(Kth((n + 1) \div 2), 1)
             ELSE Frac(Kth(n \div 2) + Kth(n \div 2 + 1), 2)

\* df.groupby(col): the group keys in ascending order; rows whose key is
\* missing belong to no group (dropna=True)
GroupKeys(rows, col, names) == SortedUnique(rows, col, names)

\* the rows of one group, in the order of df
Group(rows, col, k) == BoolIndex(rows, [i \in DOMAIN rows |-> rows[i][col] = k])

\* pd.DataFrame(list of dicts): no columns at all when the list is empty
DataFrame(list) ==
    [columns |-> IF list = <<>> THEN {} ELSE DOMAIN list[1], rows |-> list]

EmptyFrame == [columns |-> {}, rows |-> <<>>]

\* the orders DataFrame.sort_values(by, ascending=False) may return, by[i]
\* being the value of row i in the sort column: the default kind is
\* quicksort, which is not stable, so rows that compare equal may come out in
\* any order
SortValuesDesc(rows, by) ==
    LET orders == {p \in Permutations(1..Len(rows)) :
                      \A i \in 1..(Len(rows) - 1) : ~FracGt(by[p[i + 1]], by[p[i]])}
    IN  {[i \in 1..Len(rows) |-> rows[p[i]]] : p \in orders}

\* Series.head(n) / DataFrame.head(n)
Head_n(rows, n) == SubSeq(rows, 1, IF Len(rows) < n THEN Len(rows) ELSE n)

(***************************************************************************)
(* Text cells and Series.str.contains                                      *)
(***************************************************************************)
\* a text cell whose characters the model follows: the sequence of its
\* characters, or a missing value
Text(chars) == [na |-> FALSE, chars |-> chars]

NaText == [na |-> TRUE, chars |-> <<>>]

UpperCase ==
    <<"A", "B", "C", "D", "E", "F", "G", "H", "I", "J", "K", "L", "M",
      "N", "O", "P", "Q", "R", "S", "T", "U", "V", "W", "X", "Y", "Z">>

LowerCase ==
    <<"a", "b", "c", "d", "e", "f", "g", "h", "i", "j", "k", "l", "m",
      "n", "o", "p", "q", "r", "s", "t", "u", "v", "w", "x", "y", "z">>

\* case=False: the characters compared without regard to case
Lower(chars) ==
    [i \in DOMAIN chars |->
        IF \E k \in DOMAIN UpperCase : UpperCase[k] = chars[i]
        THEN LowerCase[CHOOSE k \in DOMAIN UpperCase : UpperCase[k] = chars[i]]
        ELSE chars[i]]

\* needle occurs in hay
Contains(hay, needle) ==
    \E k \in 0..(Len(hay) - Len(needle)) : SubSeq(hay, k + 1, k + Len(needle)) = needle

\* the alternatives of the pattern 'off|plan|primary'
offplan_patterns ==
    {<<"o", "f", "f">>, <<"p", "l", "a", "n">>, <<"p", "r", "i", "m", "a", "r", "y">>}

\* str.contains that takes a missing cell for a match
str_contains_na_matches(cell, patterns, na) ==
    IF cell.na THEN TRUE
    ELSE \E pat \in patterns : Contains(Lower(cell.chars), pat)

\* Series.str.contains(pattern, case=False, na=na), for one cell: the value
\* of na for a missing cell
str_contains(cell, patterns, na) ==
    IF cell.na THEN na
    ELSE \E pat \in patterns : Contains(Lower(cell.chars), pat)

(***************************************************************************)
(* show_sales_dashboard: the filter step                                   *)
(***************************************************************************)
\* the order in which show_sales_dashboard applies its filters
SalesFilterOrder ==
    <<"instance_date", "area_name_en", "property_type_en", "project_name_en">>

\* the condition under which a filter statement runs: the column is in the
\* table passed to the dashboard and the widget does not say 'All'
SalesFilterActive(df, name, sel) ==
    CASE name = "instance_date" ->
            "instance_date" \in df.columns /\ Len(sel.date_range) = 2
      [] name = "area_name_en" ->
            "area_name_en" \in df.columns /\ sel.selected_area # All
      [] name = "project_name_en" ->
            "project_name_en" \in df.columns /\ sel.selected_project # All
      [] OTHER ->
            "property_type_en" \in df.columns /\ sel.selected_property_type # All

\* the masks with a date range that leaves out its lower bound
SalesFilterMaskStrict(name, sel, r) ==
    CASE name = "instance_date" ->
            /\ r.instance_date > sel.date_range[1]
            /\ r.instance_date <= sel.date_range[2]
      [] name = "area_name_en" -> r.area_name_en = sel.selected_area
      [] name = "project_name_en" -> r.project_name_en = sel.selected_project
      [] OTHER -> r.property_type_en = sel.selected_property_type

\* the boolean mask of a filter statement, for one row
SalesFilterMask(name, sel, r) ==
    CASE name = "instance_date" ->
            /\ r.instance_date >= sel.date_range[1]
            /\ r.instance_date <= sel.date_range[2]
      [] name = "area_name_en" -> r.area_name_en = sel.selected_area
      [] name = "project_name_en" -> r.project_name_en = sel.selected_project
      [] OTHER -> r.property_type_en = sel.selected_property_type

\* a filter statement whose mask is shifted by one row against the rows
SalesFilterStepShifted(df, filtered_data, name, sel) ==
    IF SalesFilterActive(df, name, sel)
    THEN LET idx == SelectSeq([i \in 1..Len(filtered_data) |-> i],
                        LAMBDA i : /\ i > 1
                                   /\ SalesFilterMask(name, sel, filtered_data[i - 1]))
         IN  [k \in 1..Len(idx) |-> filtered_data[idx[k]]]
    ELSE filtered_data

\* a filter statement that selects from the table passed in, not from the
\* rows the filters before it have left
SalesFilterStepFromSource(df, filtered_data, name, sel) ==
    IF SalesFilterActive(df, name, sel)
    THEN BoolIndex(df.rows,
             [i \in DOMAIN df.rows |-> SalesFilterMask(name, sel, df.rows[i])])
    ELSE filtered_data

\* a filter statement that returns the selected rows last row first
SalesFilterStepReversed(df, filtered_data, name, sel) ==
    IF SalesFilterActive(df, name, sel)
    THEN LET kept == BoolIndex(filtered_data,
                         [i \in DOMAIN filtered_data |->
                             SalesFilterMask(name, sel, filtered_data[i])])
         IN  [k \in 1..Len(kept) |-> kept[Len(kept) + 1 - k]]
    ELSE filtered_data

\* one `if <column present> and <selected>: filtered_data = filtered_data[mask]`
\* statement; df is the table passed to the dashboard
SalesFilterStep(df, filtered_data, name, sel) ==
    IF SalesFilterActive(df, name, sel)
    THEN BoolIndex(filtered_data,
             [i \in DOMAIN filtered_data |-> SalesFilterMask(name, sel, filtered_data[i])])
    ELSE filtered_data

RECURSIVE ApplyInOrder(_, _, _, _)
\* the filter statements run one after the other in the given order
ApplyInOrder(df, filtered_data, order, sel) ==
    IF order = <<>>
    THEN filtered_data
    ELSE ApplyInOrder(df, SalesFilterStep(df, filtered_data, Head(order), sel),
                      Tail(order), sel)

\* filtered_data = transactions.copy() followed by the filter statements
ApplySalesFilters(df, sel) == ApplyInOrder(df, df.rows, SalesFilterOrder, sel)

\* the values the filter widgets of show_sales_dashboard offer
SalesSelections(df) ==
    LET dates == {df.rows[i].instance_date : i \in DOMAIN df.rows}
        min_date == CHOOSE d \in dates : \A e \in dates : d <= e
        max_date == CHOOSE d \in dates : \A e \in dates : d >= e
        \* st.date_input returns one date while the user is still picking the end
        ranges == {<<lo, hi>> : lo \in min_date..max_date, hi \in min_date..max_date}
        picked == {r \in ranges : r[1] <= r[2]} \cup {<<lo>> : lo \in min_date..max_date}
    IN  [date_range : picked,
         selected_area : {All} \cup Range(SortedUnique(df.rows, "area_name_en", AreaNames)),
         selected_property_type :
             {All} \cup Range(SortedUnique(df.rows, "property_type_en", PropertyTypeNames)),
         selected_project :
             {All} \cup Range(SortedUnique(df.rows, "project_name_en", ProjectNames))]

(***************************************************************************)
(* show_sales_dashboard: metrics and summary tables                        *)
(***************************************************************************)
\* avg_deal_size = total_sales_value / total_transactions if total_transactions > 0 else 0
AvgDealSize(total_sales_value, total_transactions) ==
    IF total_transactions > 0 THEN Frac(total_sales_value, total_transactions)
    ELSE Frac(0, 1)

\* the area_metrics list: one dict per group of groupby('area_name_en')
AreaMetrics(filtered_data) ==
    LET keys == GroupKeys(filtered_data, "area_name_en", AreaNames)
    IN  [i \in 1..Len(keys) |->
            LET group == Group(filtered_data, "area_name_en", keys[i])
            IN  [Area |-> keys[i],
                 No_of_Deals |-> Len(group),
                 Total_Sales |-> SumCol(group, "actual_worth"),
                 Avg_Price |-> MeanCol(group, "actual_worth")]]

\* the loops that keep only the groups with at least 3 transactions:
\* project_detailed_metrics, area_expanded_metrics and prop_type_metrics
MetricsOfBigGroups(filtered_data, col, names) ==
    LET keys == SelectSeq(GroupKeys(filtered_data, col, names),
                          LAMBDA k : Len(Group(filtered_data, col, k)) >= 3)
    IN  [i \in 1..Len(keys) |->
            LET group == Group(filtered_data, col, keys[i])
            IN  [Key |-> keys[i],
                 Transactions |-> Len(group),
                 Total_Value |-> SumCol(group, "actual_worth"),
                 Avg_Price |-> MeanCol(group, "actual_worth"),
                 Median_Price |-> MedianCol(group, "actual_worth")]]

\* the bin edges of the detailed price segments; the last bin has no upper edge
price_bins == <<0, 500000, 1000000, 1500000, 2000000, 3000000, 5000000, 10000000>>

price_labels ==
    <<"Entry (<500K)", "Affordable (500K-1M)", "Lower Mid (1M-1.5M)",
      "Mid-Market (1.5M-2M)", "Upper Mid (2M-3M)", "Luxury (3M-5M)",
      "Ultra-Luxury (5M-10M)", "Super-Prime (10M+)">>

\* pd.cut(value, bins=price_bins, labels=price_labels): the label of the bin
\* (lo, hi] that holds the value, missing for a value <= 0
Cut(v) ==
    IF v <= price_bins[1] THEN NaN
    ELSE LET i == CHOOSE j \in DOMAIN price_bins :
                     /\ price_bins[j] < v
                     /\ j = Len(price_bins) \/ v <= price_bins[j + 1]
         IN  price_labels[i]

\* filtered_data['detailed_price_segment'] = pd.cut(...)
WithSegment(filtered_data) ==
    [i \in DOMAIN filtered_data |->
        [c \in DOMAIN filtered_data[i] \cup {"detailed_price_segment"} |->
            IF c = "detailed_price_segment" THEN Cut(filtered_data[i].actual_worth)
            ELSE filtered_data[i][c]]]

\* the group keys of a groupby on the categorical column: with
\* observed=False every category is a key, also one no row falls in
SegmentKeys(segmented, observed) ==
    IF observed THEN GroupKeys(segmented, "detailed_price_segment", price_labels)
    ELSE price_labels

\* the segment_metrics list: one dict per group of groupby('detailed_price_segment')
SegmentMetrics(segmented, observed) ==
    LET keys == SegmentKeys(segmented, observed)
    IN  [i \in 1..Len(keys) |->
            LET group == Group(segmented, "detailed_price_segment", keys[i])
            IN  [Price_Segment |-> keys[i],
                 Transactions |-> Len(group),
                 Total_Value |-> SumCol(group, "actual_worth"),
                 Avg_Price |-> MeanCol(group, "actual_worth")]]

\* segment_value = groupby('detailed_price_segment')['actual_worth'].sum().reset_index()
SegmentValue(segmented, observed) ==
    LET keys == SegmentKeys(segmented, observed)
    IN  [i \in 1..Len(keys) |->
            [Price_Segment |-> keys[i],
             Total_Value |->
                 SumCol(Group(segmented, "detailed_price_segment", keys[i]), "actual_worth")]]

\* a previous period that ends on the first day of the selected range
PreviousPeriodOverlapping(date_range) ==
    LET period_length == date_range[2] - date_range[1]
    IN  <<date_range[1] - period_length, date_range[1]>>

\* period_length, previous_end and previous_start of the comparison with
\* the previous period, dates being day numbers
PreviousPeriod(date_range) ==
    LET period_length == date_range[2] - date_range[1]
        previous_end == date_range[1] - 1
        previous_start == previous_end - period_length
    IN  <<previous_start, previous_end>>

\* previous_period_data: the rows of the table passed in that lie in the
\* previous period, then the area filter and the property type filter; an
\* empty DataFrame without a date range
PreviousPeriodData(df, sel) ==
    IF "instance_date" \in df.columns /\ Len(sel.date_range) = 2
    THEN LET previous == PreviousPeriod(sel.date_range)
             in_period ==
                 BoolIndex(df.rows,
                     [i \in DOMAIN df.rows |->
                         /\ df.rows[i].instance_date >= previous[1]
                         /\ df.rows[i].instance_date <= previous[2]])
             of_area ==
                 IF sel.selected_area # All
                 THEN BoolIndex(in_period,
                          [i \in DOMAIN in_period |->
                              in_period[i].area_name_en = sel.selected_area])
                 ELSE in_period
         IN  IF sel.selected_property_type # All
             THEN BoolIndex(of_area,
                      [i \in DOMAIN of_area |->
                          of_area[i].property_type_en = sel.selected_property_type])
             ELSE of_area
    ELSE <<>>

\* offplan_count = str.contains('off|plan|primary', case=False, na=False).sum(),
\* computed when the table has a reg_type_en column: <<count>>, or <<>> when
\* the table has no such column
OffplanCount(df, filtered_data) ==
    IF "reg_type_en" \in df.columns
    THEN <<Len(BoolIndex(filtered_data,
                [i \in DOMAIN filtered_data |->
                    str_contains(filtered_data[i].reg_type_en, offplan_patterns, FALSE)]))>>
    ELSE <<>>

\* the first statement of the summary part that raises: sort_values on a
\* DataFrame built from an empty list has no such column
SalesError(area_df, project_df, area_expanded_df, prop_type_df, segment_df) ==
    CASE "No_of_Deals" \notin area_df.columns -> "KeyError: 'No. of Deals'"
      [] "Transactions" \notin project_df.columns -> "KeyError: 'Transactions'"
      [] "Transactions" \notin area_expanded_df.columns -> "KeyError: 'Transactions'"
      [] "Transactions" \notin prop_type_df.columns -> "KeyError: 'Transactions'"
      [] "Price_Segment" \notin segment_df.columns -> "KeyError: 'Price Segment'"
      [] OTHER -> "none"

\* what one run of show_sales_dashboard(df) computes for the widget values sel;
\* observed is the default of groupby's observed parameter in the installed pandas
SalesRun(df, sel, observed) ==
    LET filtered_data == ApplySalesFilters(df, sel)
        total_transactions == Len(filtered_data)
        total_sales_value == SumCol(filtered_data, "actual_worth")
        area_metrics_df == DataFrame(AreaMetrics(filtered_data))
        project_detailed_df ==
            DataFrame(MetricsOfBigGroups(filtered_data, "project_name_en", ProjectNames))
        area_metrics_expanded_df ==
            DataFrame(MetricsOfBigGroups(filtered_data, "area_name_en", AreaNames))
        prop_type_df ==
            DataFrame(MetricsOfBigGroups(filtered_data, "property_type_en", PropertyTypeNames))
        segmented == WithSegment(filtered_data)
        segment_df == DataFrame(SegmentMetrics(segmented, observed))
        error == SalesError(area_metrics_df, project_detailed_df, area_metrics_expanded_df,
                            prop_type_df, segment_df)
        \* the tables built before the statement that raised
        Built(table, errors) == IF error \in errors THEN EmptyFrame ELSE table
        e1 == {"KeyError: 'No. of Deals'"}
        e2 == e1 \cup {"KeyError: 'Transactions'"}
    IN  [op |-> "sales",
         sel |-> sel,
         filtered_data |-> filtered_data,
         total_transactions |-> total_transactions,
         total_sales_value |-> total_sales_value,
         avg_deal_size |-> AvgDealSize(total_sales_value, total_transactions),
         offplan_count |-> OffplanCount(df, filtered_data),
         previous_period |->
             IF "instance_date" \in df.columns /\ Len(sel.date_range) = 2
             THEN PreviousPeriod(sel.date_range) ELSE <<>>,
         previous_period_data |-> PreviousPeriodData(df, sel),
         area_metrics_df |-> area_metrics_df,
         segment_df |-> Built(segment_df, e2),
         segment_value |->
             IF error = "none" THEN DataFrame(SegmentValue(segmented, observed))
             ELSE EmptyFrame,
         error |-> error]

(***************************************************************************)
(* The tables a session starts from, and the runs of the dashboards        *)
(***************************************************************************)
\* the columns of the transactions table that the model follows
TransactionColumns ==
    {"instance_date", "area_name_en", "property_type_en", "project_name_en", "actual_worth"}

\* the rows the sales dashboard is checked on
SalesRows ==
    {r \in [instance_date : Days, area_name_en : {"A", NaN},
            property_type_en : {"Land", "Villa"}, project_name_en : {"P1"},
            actual_worth : {750000}] :
        r.area_name_en = NaN => r.instance_date = 1}

NoRun == [op |-> "none"]

NoTable == [columns |-> {}, rows |-> <<>>]

Init ==
    /\ transactions \in [columns : {TransactionColumns},
                         rows : NonEmptySeqsUpTo(SalesRows, MaxRows)]
    /\ rentals = NoTable
    /\ out = NoRun
    /\ ServerIdle

\* one run of show_sales_dashboard(transactions)
ShowSalesDashboard ==
    /\ transactions.rows # <<>>
    /\ \E sel \in SalesSelections(transactions), observed \in BOOLEAN :
          out' = SalesRun(transactions, sel, observed)
    /\ UNCHANGED <<transactions, rentals, server>>

\* calculate_statistics(df, column)
calculate_statistics(df_rows, column) ==
    IF df_rows = <<>>
    THEN [mean |-> Frac(0, 1), median |-> Frac(0, 1), min |-> Frac(0, 1),
          max |-> Frac(0, 1), count |-> 0]
    ELSE [mean |-> MeanCol(df_rows, column), median |-> MedianCol(df_rows, column),
          min |-> MinCol(df_rows, column), max |-> MaxCol(df_rows, column),
          count |-> Len(df_rows)]

\* calculate_statistics applied to the price column of the filtered view
CalculateStatistics ==
    /\ out.op = "sales"
    /\ out' = [op |-> "statistics",
               df_rows |-> out.filtered_data,
               statistics |-> calculate_statistics(out.filtered_data, "actual_worth")]
    /\ UNCHANGED <<transactions, rentals, server>>

Next == ShowSalesDashboard \/ CalculateStatistics

Spec == Init /\ [][Next]_vars

\* the rows on which the sales dashboard gets as far as its price segments
SegmentRows ==
    [instance_date : {1}, area_name_en : {"A", NaN}, property_type_en : {"Villa"},
     project_name_en : {"P1"}, actual_worth : {400000, 750000}]

InitSegments ==
    /\ transactions \in [columns : {TransactionColumns},
                         rows : NonEmptySeqsUpTo(SegmentRows, MaxSegmentRows)]
    /\ rentals = NoTable
    /\ out = NoRun
    /\ ServerIdle

SpecSegments == InitSegments /\ [][Next]_vars

\* most rows of the transactions table when the sums per area are followed
MaxSumRows == 3

\* the rows the sums per area are checked on: two areas and two prices
SumRows ==
    [instance_date : {1}, area_name_en : {"A", "B"}, property_type_en : {"Villa"},
     project_name_en : {"P1"}, actual_worth : {100, 200}]

InitSums ==
    /\ transactions \in [columns : {TransactionColumns},
                         rows : NonEmptySeqsUpTo(SumRows, MaxSumRows)]
    /\ rentals = NoTable
    /\ out = NoRun
    /\ ServerIdle

SpecSums == InitSums /\ [][Next]_vars

\* most rows of the transactions table when the previous period is followed
MaxPreviousRows == 2

\* the rows the previous period is checked on: sales of two projects, two
\* days apart
PreviousRows ==
    {r \in [instance_date : {1, 3}, area_name_en : {"A"}, property_type_en : {"Villa"},
            project_name_en : {"P1", "P2"}, actual_worth : {750000}] :
        r.project_name_en = "P1" => r.instance_date = 3}

InitPrevious ==
    /\ transactions \in [columns : {TransactionColumns},
                         rows : NonEmptySeqsUpTo(PreviousRows, MaxPreviousRows)]
    /\ rentals = NoTable
    /\ out = NoRun
    /\ ServerIdle

SpecPrevious == InitPrevious /\ [][Next]_vars

(***************************************************************************)
(* show_rentals_dashboard                                                  *)
(***************************************************************************)
\* most rows of the rentals table of the rentals dashboard
MaxRentalRows == 2

\* the length of the top lists: head(10)
TopN == 10

\* the values the two selectboxes of show_rentals_dashboard offer
RentalsSelections(df) ==
    [selected_area : {All} \cup Range(SortedUnique(df.rows, "area_name_en", AreaNames)),
     selected_property_type :
         {All} \cup Range(SortedUnique(df.rows, "ejari_property_sub_type_en", SubTypeNames))]

\* filtered_rentals = rentals.copy() followed by the two filter statements
ApplyRentalFilters(df, sel) ==
    LET by_area ==
            IF sel.selected_area # All
            THEN BoolIndex(df.rows,
                     [i \in DOMAIN df.rows |-> df.rows[i].area_name_en = sel.selected_area])
            ELSE df.rows
    IN  IF sel.selected_property_type # All
        THEN BoolIndex(by_area,
                 [i \in DOMAIN by_area |->
                     by_area[i].ejari_property_sub_type_en = sel.selected_property_type])
        ELSE by_area

\* the values of a column that are not missing, in the order in which they
\* first appear
FirstAppearance(rows, col) ==
    LET idx == SelectSeq([i \in 1..Len(rows) |-> i],
                   LAMBDA i : /\ rows[i][col] # NaN
                              /\ \A j \in 1..(i - 1) : rows[j][col] # rows[i][col])
    IN  [k \in 1..Len(idx) |-> rows[idx[k]][col]]

\* the orders Series.value_counts() may return: the counts of the values in
\* the order of first appearance, sorted by count, largest first
ValueCounts(rows, col) ==
    LET keys == FirstAppearance(rows, col)
        counts == [k \in 1..Len(keys) |->
                      [Key |-> keys[k], Count |-> Len(Group(rows, col, keys[k]))]]
    IN  SortValuesDesc(counts, [k \in DOMAIN counts |-> Frac(counts[k].Count, 1)])

\* df.groupby(col)[value].mean().reset_index(): one row per group key, keys
\* ascending
GroupMean(rows, col, names, value) ==
    LET keys == GroupKeys(rows, col, names)
    IN  [i \in 1..Len(keys) |->
            [Key |-> keys[i], Mean |-> MeanCol(Group(rows, col, keys[i]), value)]]

\* the area_metrics and property_metrics lists: one dict per group
RentalMetrics(filtered_rentals, col, names) ==
    LET keys == GroupKeys(filtered_rentals, col, names)
    IN  [i \in 1..Len(keys) |->
            LET group == Group(filtered_rentals, col, keys[i])
            IN  [Key |-> keys[i],
                 Contract_Count |-> Len(group),
                 Average_Rent |-> MeanCol(group, "annual_amount"),
                 Median_Rent |-> MedianCol(group, "annual_amount"),
                 Highest_Rent |-> MaxCol(group, "annual_amount"),
                 Lowest_Rent |-> MinCol(group, "annual_amount"),
                 Total_Rental_Value |-> SumCol(group, "annual_amount")]]

\* the first statement of the two metric tables that raises: sort_values on
\* a DataFrame built from an empty list has no 'Contract Count' column
RentalsError(filtered_rentals, area_metrics, property_metrics) ==
    IF filtered_rentals # <<>> /\ (area_metrics = <<>> \/ property_metrics = <<>>)
    THEN "KeyError: 'Contract Count'"
    ELSE "none"

\* the columns of the rentals table that the model follows
RentalColumns ==
    {"area_name_en", "ejari_property_sub_type_en", "annual_amount"}

\* the rows the rentals dashboard is checked on
RentalRows ==
    [area_name_en : {"A", "B", NaN}, ejari_property_sub_type_en : {"Flat", "Villa"},
     annual_amount : {50000, 100000}]

InitRentals ==
    /\ transactions = NoTable
    /\ rentals \in [columns : {RentalColumns},
                    rows : NonEmptySeqsUpTo(RentalRows, MaxRentalRows)]
    /\ out = NoRun
    /\ ServerIdle

\* one run of show_rentals_dashboard(rentals)
ShowRentalsDashboard ==
    /\ rentals.rows # <<>>
    /\ \E sel \in RentalsSelections(rentals) :
          LET filtered_rentals == ApplyRentalFilters(rentals, sel)
              area_metrics == RentalMetrics(filtered_rentals, "area_name_en", AreaNames)
              property_metrics ==
                  RentalMetrics(filtered_rentals, "ejari_property_sub_type_en", SubTypeNames)
              error == RentalsError(filtered_rentals, area_metrics, property_metrics)
              rent_by_area ==
                  GroupMean(filtered_rentals, "area_name_en", AreaNames, "annual_amount")
              rent_by_type ==
                  GroupMean(filtered_rentals, "ejari_property_sub_type_en", SubTypeNames,
                            "annual_amount")
              Means(t) == [i \in DOMAIN t |-> t[i].Mean]
              Counts(t) == [i \in DOMAIN t |-> Frac(t[i].Contract_Count, 1)]
          IN  \E area_counts \in ValueCounts(filtered_rentals, "area_name_en"),
                 avg_rent_by_area \in SortValuesDesc(rent_by_area, Means(rent_by_area)),
                 avg_rent_by_type \in SortValuesDesc(rent_by_type, Means(rent_by_type)),
                 area_metrics_df \in SortValuesDesc(area_metrics, Counts(area_metrics)),
                 property_metrics_df \in
                     SortValuesDesc(property_metrics, Counts(property_metrics)) :
                 out' = [op |-> "rentals",
                         sel |-> sel,
                         filtered_rentals |-> filtered_rentals,
                         area_counts |-> Head_n(area_counts, TopN),
                         avg_rent_by_area |-> Head_n(avg_rent_by_area, TopN),
                         avg_rent_by_type |-> Head_n(avg_rent_by_type, TopN),
                         area_metrics_df |-> DataFrame(area_metrics_df),
                         property_metrics_df |->
                             IF area_metrics = <<>> THEN EmptyFrame
                             ELSE DataFrame(property_metrics_df),
                         error |-> error]
    /\ UNCHANGED <<transactions, rentals, server>>

NextRentals == ShowRentalsDashboard

SpecRentals == InitRentals /\ [][NextRentals]_vars

(***************************************************************************)
(* prepare_merged_data and show_comparing_dashboard                        *)
(***************************************************************************)
\* a datetime64 value
Timestamp(y, m, d) == [year |-> y, month |-> m, day |-> d]

\* pd.to_datetime(text, dayfirst=True) of a text date written day-month-year,
\* the text being the sequence of its three numbers
to_datetime(text) == Timestamp(text[3], text[2], text[1])

\* the missing datetime64 value
NaT == [year |-> 0, month |-> 0, day |-> 0]

\* the calendar of datetime64: leap years, lengths of months, and the
\* proleptic Gregorian day number (1 is Monday 0001-01-01)
IsLeap(y) == (y % 4 = 0 /\ y % 100 # 0) \/ y % 400 = 0

DaysInMonth(y, m) ==
    CASE m \in {1, 3, 5, 7, 8, 10, 12} -> 31
      [] m \in {4, 6, 9, 11} -> 30
      [] m = 2 -> IF IsLeap(y) THEN 29 ELSE 28

RECURSIVE DaysBeforeMonth(_, _)
DaysBeforeMonth(y, m) ==
    IF m = 1 THEN 0 ELSE DaysBeforeMonth(y, m - 1) + DaysInMonth(y, m - 1)

DaysBeforeYear(y) ==
    LET p == y - 1 IN 365 * p + p \div 4 - p \div 100 + p \div 400

Ordinal(ts) == DaysBeforeYear(ts.year) + DaysBeforeMonth(ts.year, ts.month) + ts.day

\* the years of the dates the model computes with
Years == 2022..2026

FromOrdinal(n) ==
    LET y == CHOOSE yy \in Years : DaysBeforeYear(yy) < n /\ n <= DaysBeforeYear(yy + 1)
        k == n - DaysBeforeYear(y)
        m == CHOOSE mm \in 1..12 :
                 DaysBeforeMonth(y, mm) < k /\ k <= DaysBeforeMonth(y, mm) + DaysInMonth(y, mm)
    IN  Timestamp(y, m, k - DaysBeforeMonth(y, m))

\* Timestamp.weekday(): Monday is 0
weekday(ts) == (Ordinal(ts) + 6) % 7

\* Timestamp.to_period(freq); 'W' is the week from Monday to Sunday, and the
\* period of NaT is NaT
to_period(ts, freq) ==
    CASE ts = NaT -> NaT
      [] ts # NaT /\ freq = "D" ->
            [freq |-> "D", year |-> ts.year, month |-> ts.month, day |-> ts.day]
      [] ts # NaT /\ freq = "W" ->
            [freq |-> "W",
             start |-> FromOrdinal(Ordinal(ts) - weekday(ts)),
             end |-> FromOrdinal(Ordinal(ts) - weekday(ts) + 6)]
      [] ts # NaT /\ freq = "M" -> [freq |-> "M", year |-> ts.year, month |-> ts.month]
      [] ts # NaT /\ freq = "Q" ->
            [freq |-> "Q", year |-> ts.year, quarter |-> (ts.month - 1) \div 3 + 1]
      [] ts # NaT /\ freq = "Y" -> [freq |-> "Y", year |-> ts.year]

\* the rental sub types prepare_merged_data takes for a transaction property type
property_mapping ==
    [Apartment |-> {"Apartment", "Studio", "Flat"},
     Villa |-> {"Villa", "Townhouse"},
     Commercial |-> {"Office", "Shop", "Retail"}]

\* an interval of prices; capped is false when max_price is float('inf')
PriceRange(lo, hi, capped) == [min_price |-> lo, max_price |-> hi, capped |-> capped]

\* min_price, max_price: the bounds of the "Price Bracket" selectbox, or the
\* values of the price slider when the bracket is 'All'
BracketBounds(selected_price_range, price_range) ==
    CASE selected_price_range = "Up to 1M AED" -> PriceRange(0, 1000000, TRUE)
      [] selected_price_range = "1M-3M AED" -> PriceRange(1000000, 3000000, TRUE)
      [] selected_price_range = "3M-5M AED" -> PriceRange(3000000, 5000000, TRUE)
      [] selected_price_range = "5M-10M AED" -> PriceRange(5000000, 10000000, TRUE)
      [] selected_price_range = "10M+ AED" -> PriceRange(10000000, 10000000, FALSE)
      [] OTHER -> price_range

\* (actual_worth >= min_price) & (actual_worth <= max_price)
InPriceRange(v, range) ==
    v >= range.min_price /\ (~range.capped \/ v <= range.max_price)

\* the filter statements on the transactions; price_filter says whether the
\* price statement runs
CompareFilterTransactions(df, sel, price_filter) ==
    LET by_area ==
            IF sel.selected_area # All
            THEN BoolIndex(df.rows,
                     [i \in DOMAIN df.rows |-> df.rows[i].area_name_en = sel.selected_area])
            ELSE df.rows
        by_type ==
            IF sel.selected_property_type # All
            THEN BoolIndex(by_area,
                     [i \in DOMAIN by_area |->
                         by_area[i].property_type_en = sel.selected_property_type])
            ELSE by_area
        by_rooms ==
            IF "rooms_en" \in df.columns /\ sel.selected_rooms # All
            THEN BoolIndex(by_type,
                     [i \in DOMAIN by_type |-> by_type[i].rooms_en = sel.selected_rooms])
            ELSE by_type
    IN  IF price_filter
        THEN BoolIndex(by_rooms,
                 [i \in DOMAIN by_rooms |-> InPriceRange(by_rooms[i].actual_worth, sel.price)])
        ELSE by_rooms

\* the filter statements on the rentals
CompareFilterRentals(df, sel) ==
    LET by_area ==
            IF sel.selected_area # All
            THEN BoolIndex(df.rows,
                     [i \in DOMAIN df.rows |-> df.rows[i].area_name_en = sel.selected_area])
            ELSE df.rows
        by_type ==
            IF sel.selected_property_type = All THEN by_area
            ELSE IF "property_type_en" \in df.columns
            THEN BoolIndex(by_area,
                     [i \in DOMAIN by_area |->
                         by_area[i].property_type_en = sel.selected_property_type])
            ELSE IF /\ "ejari_property_sub_type_en" \in df.columns
                    /\ sel.selected_property_type \in DOMAIN property_mapping
            THEN BoolIndex(by_area,
                     [i \in DOMAIN by_area |->
                         by_area[i].ejari_property_sub_type_en
                             \in property_mapping[sel.selected_property_type]])
            ELSE by_area
    IN  IF "rooms_en" \in df.columns /\ sel.selected_rooms # All
        THEN BoolIndex(by_type,
                 [i \in DOMAIN by_type |-> by_type[i].rooms_en = sel.selected_rooms])
        ELSE by_type

\* pd.merge(area_price_data, area_rent_data, on='area_name_en', how='inner')
\* of the two tables of means by area
MergedData(filtered_transactions, filtered_rentals) ==
    LET area_price_data ==
            GroupMean(filtered_transactions, "area_name_en", AreaNames, "actual_worth")
        area_rent_data ==
            GroupMean(filtered_rentals, "area_name_en", AreaNames, "annual_amount")
        matched == SelectSeq(area_price_data,
                       LAMBDA p : \E i \in DOMAIN area_rent_data :
                                      area_rent_data[i].Key = p.Key)
    IN  [i \in 1..Len(matched) |->
            LET rent == CHOOSE j \in DOMAIN area_rent_data :
                            area_rent_data[j].Key = matched[i].Key
            IN  [area_name_en |-> matched[i].Key,
                 actual_worth |-> matched[i].Mean,
                 annual_amount |-> area_rent_data[rent].Mean]]

RECURSIVE GCD(_, _)
GCD(a, b) == IF b = 0 THEN a ELSE GCD(b, a % b)

\* the quotient x / y of two positive numbers, in lowest terms
Quotient(x, y) ==
    LET n == x.num * y.den
        d == x.den * y.num
        g == GCD(n, d)
    IN  Frac(n \div g, d \div g)

\* calculate_rental_yield(price, annual_rent), in percent
calculate_rental_yield(price, annual_rent) ==
    IF price.num <= 0 THEN Frac(0, 1)
    ELSE LET ratio == Quotient(annual_rent, price)
         IN  Quotient(Frac(ratio.num * 100, ratio.den), Frac(1, 1))

\* area_appreciation.get(x, 15.0), with the first two entries of the table
AppreciationRate(area) ==
    CASE area = "Dubai Marina" -> Frac(45, 2)
      [] area = "Downtown Dubai" -> Frac(24, 1)
      [] OTHER -> Frac(15, 1)

\* merged_data with its gross_yield and appreciation_rate columns
WithYields(merged_data) ==
    [i \in DOMAIN merged_data |->
        [area_name_en |-> merged_data[i].area_name_en,
         actual_worth |-> merged_data[i].actual_worth,
         annual_amount |-> merged_data[i].annual_amount,
         gross_yield |-> calculate_rental_yield(merged_data[i].actual_worth,
                                                merged_data[i].annual_amount),
         appreciation_rate |-> AppreciationRate(merged_data[i].area_name_en)]]

\* the column converted with pd.to_datetime unless it is datetime64 already
EnsureDatetime(df, col) ==
    IF col \in df.datetime THEN df
    ELSE [columns |-> df.columns,
          datetime |-> df.datetime \cup {col},
          rows |-> [i \in DOMAIN df.rows |->
                       [c \in DOMAIN df.rows[i] |->
                           IF c = col THEN to_datetime(df.rows[i][c])
                           ELSE df.rows[i][c]]]]

\* df['period'] = df[col].dt.to_period(period_format), written into df
WithPeriod(df, col, period_format) ==
    [columns |-> df.columns \cup {"period"},
     datetime |-> df.datetime,
     rows |-> [i \in DOMAIN df.rows |->
                  [c \in DOMAIN df.rows[i] \cup {"period"} |->
                      IF c = "period" THEN to_period(df.rows[i][col], period_format)
                      ELSE df.rows[i][c]]]]

\* the pandas frequency of the "Time Granularity" radio
granularity_map ==
    [Daily |-> "D", Weekly |-> "W", Monthly |-> "M", Quarterly |-> "Q", Yearly |-> "Y"]

\* most rows of each table of prepare_merged_data and the comparing dashboard
MaxCompareRows == 2

\* the columns of the two tables that the model follows
CompareTransactionColumns ==
    {"instance_date", "area_name_en", "property_type_en", "rooms_en", "actual_worth"}

CompareRentalColumns ==
    {"area_name_en", "ejari_property_sub_type_en", "contract_start_date", "annual_amount"}

\* the rows prepare_merged_data and the comparing dashboard are checked on
CompareTransactionRows ==
    [instance_date : {Timestamp(2024, 1, 15)}, area_name_en : {"A", "B"},
     property_type_en : {"Land", "Villa"}, rooms_en : {"1 B/R"}, actual_worth : {750000}]

CompareRentalRows ==
    [area_name_en : {"A", "B"}, ejari_property_sub_type_en : {"Flat", "Villa"},
     contract_start_date : {<<1, 2, 2024>>}, annual_amount : {50000}]

InitComparing ==
    /\ transactions \in [columns : {CompareTransactionColumns},
                         datetime : {{"instance_date"}},
                         rows : NonEmptySeqsUpTo(CompareTransactionRows, MaxCompareRows)]
    /\ rentals \in [columns : {CompareRentalColumns},
                    datetime : {{}},
                    rows : NonEmptySeqsUpTo(CompareRentalRows, MaxCompareRows)]
    /\ out = NoRun
    /\ ServerIdle

\* the arguments prepare_merged_data is called with
MergeArguments ==
    [selected_area : {All} \cup Range(AreaNames),
     selected_property_type : {All} \cup Range(PropertyTypeNames),
     selected_rooms : {All, "1 B/R"},
     \* the default, a range above the prices of the rows, and a range whose
     \* lower bound is above its upper bound
     price : {PriceRange(0, 0, FALSE), PriceRange(1000000, 3000000, TRUE),
              PriceRange(3000000, 1000000, TRUE)}]

\* one call of prepare_merged_data(transactions, rentals, ...)
PrepareMergedData ==
    /\ \E sel \in MergeArguments :
          LET filtered_transactions == CompareFilterTransactions(transactions, sel, TRUE)
              filtered_rentals == CompareFilterRentals(rentals, sel)
          IN  out' = [op |-> "merged",
                      sel |-> sel,
                      filtered_transactions |-> filtered_transactions,
                      filtered_rentals |-> filtered_rentals,
                      merged_data |-> MergedData(filtered_transactions, filtered_rentals),
                      error |-> "none"]
    /\ UNCHANGED <<transactions, rentals, server>>

NextMerged == PrepareMergedData

SpecMerged == InitComparing /\ [][NextMerged]_vars

\* the values the sidebar widgets of show_comparing_dashboard offer
ComparingSelections ==
    LET common_areas ==
            SelectSeq(SortedUnique(transactions.rows, "area_name_en", AreaNames),
                LAMBDA a : \E i \in DOMAIN rentals.rows : rentals.rows[i].area_name_en = a)
    IN  [selected_area : {All} \cup Range(common_areas),
         selected_property_type :
             {All} \cup Range(SortedUnique(transactions.rows, "property_type_en",
                                           PropertyTypeNames)),
         selected_rooms : {All} \cup {transactions.rows[i].rooms_en :
                                          i \in DOMAIN transactions.rows},
         \* the price slider is left at its default, the whole range of prices
         price_range : {PriceRange(MinCol(transactions.rows, "actual_worth").num,
                                   MaxCol(transactions.rows, "actual_worth").num, TRUE)},
         selected_price_range : {"All", "1M-3M AED"},
         time_granularity : {"Monthly", "Yearly"}]

\* one run of show_comparing_dashboard(transactions, rentals): the filter
\* step, the merged table with its top lists, and the period columns that
\* the price and rent indices write into the two tables
ShowComparingDashboard ==
    /\ "actual_worth" \in transactions.columns
    /\ "annual_amount" \in rentals.columns
    /\ \E widgets \in ComparingSelections :
          LET sel == [selected_area |-> widgets.selected_area,
                      selected_property_type |-> widgets.selected_property_type,
                      selected_rooms |-> widgets.selected_rooms,
                      selected_price_range |-> widgets.selected_price_range,
                      price |-> BracketBounds(widgets.selected_price_range,
                                              widgets.price_range)]
              filtered_transactions ==
                  CompareFilterTransactions(transactions, sel, sel.selected_price_range # "All")
              filtered_rentals == CompareFilterRentals(rentals, sel)
              merged_data == WithYields(MergedData(filtered_transactions, filtered_rentals))
              period_format == granularity_map[widgets.time_granularity]
          IN  /\ \E top_yield_areas \in
                        SortValuesDesc(merged_data,
                            [i \in DOMAIN merged_data |-> merged_data[i].gross_yield]),
                    top_roi_areas \in
                        SortValuesDesc(merged_data,
                            [i \in DOMAIN merged_data |-> merged_data[i].appreciation_rate]) :
                    out' = [op |-> "comparing",
                            sel |-> sel,
                            filtered_transactions |-> filtered_transactions,
                            filtered_rentals |-> filtered_rentals,
                            merged_data |-> merged_data,
                            top_yield_areas |-> Head_n(top_yield_areas, TopN),
                            top_roi_areas |-> Head_n(top_roi_areas, TopN),
                            error |-> "none"]
              /\ transactions' =
                     IF "instance_date" \in transactions.columns
                     THEN WithPeriod(EnsureDatetime(transactions, "instance_date"),
                                     "instance_date", period_format)
                     ELSE transactions
              /\ rentals' =
                     IF "instance_date" \in transactions.columns
                        /\ "contract_start_date" \in rentals.columns
                     THEN WithPeriod(EnsureDatetime(rentals, "contract_start_date"),
                                     "contract_start_date", period_format)
                     ELSE rentals
    /\ UNCHANGED server

NextComparing == ShowComparingDashboard

\* the rental rows the comparing dashboard is checked on
DashboardRentalRows ==
    [area_name_en : {"A", "B"}, ejari_property_sub_type_en : {"Flat"},
     contract_start_date : {<<1, 2, 2024>>}, annual_amount : {50000}]

InitDashboard ==
    /\ transactions \in [columns : {CompareTransactionColumns},
                         datetime : {{"instance_date"}},
                         rows : NonEmptySeqsUpTo(CompareTransactionRows, MaxCompareRows)]
    /\ rentals \in [columns : {CompareRentalColumns},
                    datetime : {{}},
                    rows : NonEmptySeqsUpTo(DashboardRentalRows, MaxCompareRows)]
    /\ out = NoRun
    /\ ServerIdle

SpecComparing == InitDashboard /\ [][NextComparing]_vars

(***************************************************************************)
(* show_area_analytics_dashboard, and tables with missing values           *)
(***************************************************************************)
\* most rows of the transactions table with missing values
MaxNullRows == 2

\* Series.nlargest(n), keep='first': the n largest values, largest first,
\* rows with equal values in the order of the Series; by[i] is the value of
\* row i
NLargest(rows, by, n) ==
    LET p == CHOOSE q \in Permutations(1..Len(rows)) :
                 \A i, j \in 1..Len(rows) :
                     i < j => \/ FracGt(by[q[i]], by[q[j]])
                              \/ FracEq(by[q[i]], by[q[j]]) /\ q[i] < q[j]
    IN  Head_n([i \in 1..Len(rows) |-> rows[p[i]]], n)

\* df.groupby(col)[value].sum(): one row per group key, keys ascending
GroupSum(rows, col, names, value) ==
    LET keys == GroupKeys(rows, col, names)
    IN  [i \in 1..Len(keys) |->
            [Key |-> keys[i], Sum |-> SumCol(Group(rows, col, keys[i]), value)]]

\* transactions[transactions["area_name_en"].isin(selected_areas)] if
\* selected_areas else transactions
FilterAreas(df, selected_areas) ==
    IF selected_areas # {}
    THEN BoolIndex(df.rows,
             [i \in DOMAIN df.rows |-> df.rows[i].area_name_en \in selected_areas])
    ELSE df.rows

\* one run of show_area_analytics_dashboard(transactions): the selection, the
\* four metrics, the totals per project and the full table; the monthly
\* trend chart reads year and month, which the tables of the model leave out
ShowAreaAnalyticsDashboard ==
    /\ \E selected_areas \in
              SUBSET Range(SortedUnique(transactions.rows, "area_name_en", AreaNames)) :
          LET filtered_area_data == FilterAreas(transactions, selected_areas)
              project_sums ==
                  IF "project_name_en" \in transactions.columns
                  THEN GroupSum(filtered_area_data, "project_name_en", ProjectNames,
                                "actual_worth")
                  ELSE <<>>
              worths == [i \in DOMAIN filtered_area_data |->
                            Frac(filtered_area_data[i].actual_worth, 1)]
          IN  \E full_table \in SortValuesDesc(filtered_area_data, worths) :
                 out' = [op |-> "area_analytics",
                         selected_areas |-> selected_areas,
                         filtered_area_data |-> filtered_area_data,
                         average_sale_value |-> MeanCol(filtered_area_data, "actual_worth"),
                         median_sale_value |-> MedianCol(filtered_area_data, "actual_worth"),
                         top_sale_value |-> MaxCol(filtered_area_data, "actual_worth"),
                         least_sale_value |-> MinCol(filtered_area_data, "actual_worth"),
                         project_worth |->
                             NLargest(project_sums,
                                      [i \in DOMAIN project_sums |->
                                          Frac(project_sums[i].Sum, 1)], TopN),
                         full_table |-> full_table,
                         error |-> "none"]
    /\ UNCHANGED <<transactions, rentals, server>>

\* the reg_type_en texts of the rows with missing values
OffPlanText == Text(<<"O", "f", "f", "-", "P", "l", "a", "n">>)

ExistingText == Text(<<"E", "x", "i", "s", "t", "i", "n", "g">>)

\* the transactions the null handling is checked on: the area and the
\* registration type may be missing
NullRow(area, reg_type) ==
    [instance_date |-> 1, area_name_en |-> area, property_type_en |-> "Villa",
     project_name_en |-> "P1", actual_worth |-> 750000, reg_type_en |-> reg_type]

NullRows ==
    {NullRow("A", OffPlanText), NullRow("A", ExistingText),
     NullRow("A", NaText), NullRow(NaN, OffPlanText)}

\* the rental rows the null handling is checked on: the sub type may be missing
NullRental(sub_type) ==
    [area_name_en |-> "A", ejari_property_sub_type_en |-> sub_type, annual_amount |-> 50000]

NullRentalTables == {<<NullRental("Villa"), NullRental(NaN)>>}

InitNulls ==
    /\ transactions \in [columns : {TransactionColumns \cup {"reg_type_en"}},
                         rows : NonEmptySeqsUpTo(NullRows, MaxNullRows)]
    /\ rentals \in [columns : {RentalColumns}, rows : NullRentalTables]
    /\ out = NoRun
    /\ ServerIdle

NextNulls == ShowSalesDashboard \/ ShowAreaAnalyticsDashboard \/ PrepareMergedData

SpecNulls == InitNulls /\ [][NextNulls]_vars

(***************************************************************************)
(* create_time_periods and the text of a period                            *)
(***************************************************************************)
\* most rows of the table create_time_periods is checked on
MaxPeriodRows == 2

\* the characters of a period text, and their code points
DigitChar == <<"0", "1", "2", "3", "4", "5", "6", "7", "8", "9">>

Ord(c) ==
    CASE c = "-" -> 45
      [] c = "/" -> 47
      [] c = "N" -> 78
      [] c = "Q" -> 81
      [] c = "T" -> 84
      [] c = "a" -> 97
      [] OTHER -> 48 + (CHOOSE d \in 0..9 : DigitChar[d + 1] = c)

\* the decimal digits of n
RECURSIVE Decimal(_)
Decimal(n) ==
    IF n < 10 THEN <<DigitChar[n + 1]>>
    ELSE Append(Decimal(n \div 10), DigitChar[(n % 10) + 1])

\* the decimal digits of n, zero padded to width characters
RECURSIVE Digits(_, _)
Digits(n, width) ==
    IF width = 0 THEN <<>>
    ELSE Append(Digits(n \div 10, width - 1), DigitChar[(n % 10) + 1])

\* year-month-day with four, two and two digits
IsoDate(ts) == Digits(ts.year, 4) \o <<"-">> \o Digits(ts.month, 2) \o <<"-">> \o Digits(ts.day, 2)

\* the text of a period with the numbers written without leading zeros
PeriodStrUnpadded(p) ==
    CASE p = NaT -> <<"N", "a", "T">>
      [] p # NaT /\ p.freq = "D" ->
            Decimal(p.year) \o <<"-">> \o Decimal(p.month) \o <<"-">> \o Decimal(p.day)
      [] p # NaT /\ p.freq = "W" ->
            Decimal(p.start.year) \o <<"-">> \o Decimal(p.start.month) \o <<"-">>
                \o Decimal(p.start.day) \o <<"/">> \o Decimal(p.end.year) \o <<"-">>
                \o Decimal(p.end.month) \o <<"-">> \o Decimal(p.end.day)
      [] p # NaT /\ p.freq = "M" -> Decimal(p.year) \o <<"-">> \o Decimal(p.month)
      [] p # NaT /\ p.freq = "Q" -> Decimal(p.year) \o <<"Q">> \o Decimal(p.quarter)
      [] p # NaT /\ p.freq = "Y" -> Decimal(p.year)

\* str(period), what astype(str) writes into period_str: 2024-01-15,
\* 2024-01-15/2024-01-21, 2024-01, 2024Q1 and 2024
PeriodStr(p) ==
    CASE p = NaT -> <<"N", "a", "T">>
      [] p # NaT /\ p.freq = "D" -> IsoDate(Timestamp(p.year, p.month, p.day))
      [] p # NaT /\ p.freq = "W" -> IsoDate(p.start) \o <<"/">> \o IsoDate(p.end)
      [] p # NaT /\ p.freq = "M" -> Digits(p.year, 4) \o <<"-">> \o Digits(p.month, 2)
      [] p # NaT /\ p.freq = "Q" -> Digits(p.year, 4) \o <<"Q">> \o Decimal(p.quarter)
      [] p # NaT /\ p.freq = "Y" -> Digits(p.year, 4)

\* a < b for two texts, character by character
LexLess(a, b) ==
    \E k \in 1..Len(b) :
        /\ \A i \in 1..(k - 1) : i <= Len(a) /\ a[i] = b[i]
        /\ k > Len(a) \/ Ord(a[k]) < Ord(b[k])

\* pd.to_datetime(text, errors='coerce') of a text date written
\* year-month-day, the text being the sequence of its three numbers: a text
\* that is no date of the calendar becomes NaT
to_datetime_coerce(text) ==
    IF /\ text[1] \in Years
       /\ text[2] \in 1..12
       /\ text[3] \in 1..DaysInMonth(text[1], text[2])
    THEN Timestamp(text[1], text[2], text[3])
    ELSE NaT

\* ensure_datetime(df, date_column): the column is converted in df itself
ensure_datetime(df, date_column) ==
    IF date_column \in df.columns /\ date_column \notin df.datetime
    THEN [columns |-> df.columns,
          datetime |-> df.datetime \cup {date_column},
          rows |-> [i \in DOMAIN df.rows |->
                       [c \in DOMAIN df.rows[i] |->
                           IF c = date_column THEN to_datetime_coerce(df.rows[i][c])
                           ELSE df.rows[i][c]]]]
    ELSE df

\* create_time_periods(df, date_column, period): df with the column
\* time_period, every row of df kept
create_time_periods(df, date_column, period) ==
    IF date_column \notin df.columns THEN df
    ELSE LET d == ensure_datetime(df, date_column)
         IN  [columns |-> d.columns \cup {"time_period"},
              datetime |-> d.datetime,
              rows |-> [i \in DOMAIN d.rows |->
                           [c \in DOMAIN d.rows[i] \cup {"time_period"} |->
                               IF c = "time_period"
                               THEN to_period(d.rows[i][date_column], period)
                               ELSE d.rows[i][c]]]]

\* one call of create_time_periods on the transactions table; the value
\* returned is the table itself
CreateTimePeriods ==
    /\ \E date_column \in {"instance_date", "registration_date"},
          period \in {"D", "W", "M", "Q", "Y"} :
          /\ transactions' = create_time_periods(transactions, date_column, period)
          /\ out' = [op |-> "periods",
                     date_column |-> date_column,
                     period |-> period,
                     rows_in |-> Len(transactions.rows),
                     returned |-> <<transactions'>>,
                     error |-> "none"]
    /\ UNCHANGED <<rentals, server>>

\* the date texts create_time_periods is checked on: the ends of weeks,
\* months, quarters and years, and the 30th of February
PeriodDateTexts ==
    {<<2023, 12, 31>>, <<2024, 1, 1>>, <<2024, 1, 7>>, <<2024, 1, 8>>, <<2024, 9, 30>>,
     <<2024, 10, 1>>, <<2024, 12, 30>>, <<2025, 1, 1>>, <<2024, 2, 30>>}

PeriodRows == [instance_date : PeriodDateTexts, actual_worth : {750000}]

InitPeriods ==
    /\ transactions \in [columns : {{"instance_date", "actual_worth"}},
                         datetime : {{}},
                         rows : NonEmptySeqsUpTo(PeriodRows, MaxPeriodRows)]
    /\ rentals = [columns |-> {}, datetime |-> {}, rows |-> <<>>]
    /\ out = NoRun
    /\ ServerIdle

NextPeriods == CreateTimePeriods

SpecPeriods == InitPeriods /\ [][NextPeriods]_vars

(***************************************************************************)
(* load_data, get_data and the script runs of the sessions                 *)
(***************************************************************************)
\* most rows of transactions.csv
MaxRawRows == 2

\* the browser sessions; each runs the script of app.py from the top at
\* every interaction.  A session is at the start of a script run or has
\* loaded its tables (pc), holds the pair of tables of the run (data) and
\* its st.session_state, and has chosen some values of the "Time
\* Granularity" radio so far (chosen)
Sessions == {"s1", "s2"}

\* the objects of the server process: the entry of st.cache_data for
\* load_data, and for each session the pair of tables of its current script
\* run and the pair kept in its st.session_state
CacheRef == <<"server", "cache">>

Refs == {CacheRef} \cup (Sessions \X {"run", "state"})

\* st.cache_data hands every caller a copy of the cached value, a new
\* object; obj is the new object
cache_data_shared(obj) == CacheRef

cache_data(obj) == obj

\* pd.to_datetime(text, dayfirst=True, errors='coerce') of a text date
\* written day-month-year
to_datetime_dayfirst(text) == to_datetime_coerce(<<text[3], text[2], text[1]>>)

\* df[col] = pd.to_datetime(df[col], dayfirst=True, errors='coerce'); a
\* column that is datetime64 already stays as it is
ParseDates(df, col) ==
    IF col \in df.datetime THEN df
    ELSE [columns |-> df.columns,
          datetime |-> df.datetime \cup {col},
          rows |-> [i \in DOMAIN df.rows |->
                       [c \in DOMAIN df.rows[i] |->
                           IF c = col THEN to_datetime_dayfirst(df.rows[i][c])
                           ELSE df.rows[i][c]]]]

\* df.dropna(subset=[col]) on a datetime64 column
dropna(df, col) ==
    [columns |-> df.columns,
     datetime |-> df.datetime,
     rows |-> BoolIndex(df.rows, [i \in DOMAIN df.rows |-> df.rows[i][col] # NaT])]

\* the columns year and month of load_data
WithYearMonth(df) ==
    [columns |-> df.columns \cup {"year", "month"},
     datetime |-> df.datetime,
     rows |-> [i \in DOMAIN df.rows |->
                  [c \in DOMAIN df.rows[i] \cup {"year", "month"} |->
                      CASE c = "year" -> df.rows[i].instance_date.year
                        [] c = "month" -> df.rows[i].instance_date.month
                        [] OTHER -> df.rows[i][c]]]]

\* pd.read_csv: the rows of the file as a table of text columns
read_csv(rows) ==
    [columns |-> IF rows = <<>> THEN {} ELSE DOMAIN rows[1], datetime |-> {}, rows |-> rows]

\* the files after the body of load_data has run: a missing parquet file is
\* written from its CSV file, the transactions without the rows whose date
\* did not parse
DiskAfterLoad(d) ==
    [transactions_csv |-> d.transactions_csv,
     rentals_csv |-> d.rentals_csv,
     transactions_parquet |->
         IF d.transactions_parquet = <<>>
         THEN <<dropna(ParseDates(read_csv(d.transactions_csv), "instance_date"),
                       "instance_date")>>
         ELSE d.transactions_parquet,
     rentals_parquet |->
         IF d.rentals_parquet = <<>> THEN <<read_csv(d.rentals_csv)>> ELSE d.rentals_parquet]

\* the value the body of load_data returns, the tables being smaller than
\* any sample size: (transactions, rentals)
load_data(d) ==
    LET files == DiskAfterLoad(d)
    IN  <<WithYearMonth(dropna(ParseDates(files.transactions_parquet[1], "instance_date"),
                               "instance_date")),
          files.rentals_parquet[1]>>

\* the rows of transactions.csv whose date pd.to_datetime cannot parse
Unparsable(rows) ==
    Cardinality({i \in DOMAIN rows : to_datetime_dayfirst(rows[i].instance_date) = NaT})

\* the cached call load_data() by session s: the body runs when the cache
\* holds no entry; into is the slot that receives the returned pair
CachedLoad(s, into) ==
    LET miss == heap[CacheRef] = <<>>
        value == IF miss THEN load_data(disk) ELSE heap[CacheRef][1]
        ref == cache_data(<<s, into>>)
    IN  /\ disk' = IF miss THEN DiskAfterLoad(disk) ELSE disk
        /\ heap' = [heap EXCEPT ![CacheRef] = <<value>>, ![<<s, into>>] = <<value>>]
        /\ sessions' = [sessions EXCEPT ![s].pc = "loaded", ![s].data = ref,
                           ![s].session_state =
                               IF into = "state" THEN <<ref>> ELSE sessions[s].session_state]
        /\ out' = [op |-> "load", session |-> s,
                   unparsable |-> Unparsable(disk.transactions_csv),
                   returned |-> heap'[ref][1], error |-> "none"]

\* app.py 35: transactions, rentals = load_data()
LoadData(s) ==
    /\ sessions[s].pc = "start"
    /\ CachedLoad(s, "run")
    /\ UNCHANGED <<transactions, rentals>>

\* get_data(): the pair of st.session_state, loaded at the first call
GetData(s) ==
    /\ sessions[s].pc = "start"
    /\ IF sessions[s].session_state = <<>>
       THEN CachedLoad(s, "state")
       ELSE /\ sessions' = [sessions EXCEPT ![s].pc = "loaded",
                               ![s].data = sessions[s].session_state[1]]
            /\ out' = [op |-> "get", session |-> s, error |-> "none"]
            /\ UNCHANGED <<disk, heap>>
    /\ UNCHANGED <<transactions, rentals>>

\* app.py 37-53: the dashboards run on the pair of the script run; the
\* comparing dashboard writes the period columns into the two tables
RunDashboards(s) ==
    /\ sessions[s].pc = "loaded"
    /\ \E time_granularity \in {"Monthly", "Yearly"} :
          LET pair == heap[sessions[s].data][1]
              period_format == granularity_map[time_granularity]
          IN  /\ heap' = [heap EXCEPT ![sessions[s].data] =
                             <<  <<WithPeriod(EnsureDatetime(pair[1], "instance_date"),
                                              "instance_date", period_format),
                                   WithPeriod(EnsureDatetime(pair[2], "contract_start_date"),
                                              "contract_start_date", period_format)>>  >>]
              /\ sessions' = [sessions EXCEPT ![s].pc = "start",
                                 ![s].chosen = sessions[s].chosen \cup {time_granularity}]
              /\ out' = [op |-> "dashboards", session |-> s, error |-> "none"]
    /\ UNCHANGED <<transactions, rentals, disk>>

\* the entry of st.cache_data is dropped after ttl seconds; an object that a
\* session still refers to lives on
CacheExpires ==
    /\ heap[CacheRef] # <<>>
    /\ \A s \in Sessions : sessions[s].data # CacheRef /\ sessions[s].session_state # <<CacheRef>>
    /\ heap' = [heap EXCEPT ![CacheRef] = <<>>]
    /\ UNCHANGED <<transactions, rentals, out, disk, sessions>>

\* the date texts of transactions.csv, written day-month-year; there is no
\* 30th of February
RawDateTexts == {<<15, 1, 2024>>, <<1, 2, 2025>>, <<30, 2, 2024>>}

RawTransactionRows ==
    [instance_date : RawDateTexts, area_name_en : {"A"}, actual_worth : {750000}]

RawRentalRows ==
    <<[area_name_en |-> "A", contract_start_date |-> <<1, 2, 2024>>, annual_amount |-> 50000]>>

InitSessions ==
    /\ transactions = NoTable
    /\ rentals = NoTable
    /\ out = NoRun
    /\ disk \in [transactions_csv : NonEmptySeqsUpTo(RawTransactionRows, MaxRawRows),
                 rentals_csv : {RawRentalRows},
                 transactions_parquet : {<<>>},
                 rentals_parquet : {<<>>}]
    /\ heap = [r \in Refs |-> <<>>]
    /\ sessions = [s \in Sessions |->
                      [pc |-> "start", data |-> <<s, "run">>, session_state |-> <<>>,
                       chosen |-> {}]]

NextSessions ==
    \/ \E s \in Sessions : LoadData(s)
    \/ \E s \in Sessions : GetData(s)
    \/ \E s \in Sessions : RunDashboards(s)
    \/ CacheExpires

SpecSessions == InitSessions /\ [][NextSessions]_vars

(***************************************************************************)
(* custom_login and the script of app.py                                   *)
(***************************************************************************)
\* Python's None
None == "None"

\* the keys the script keeps in st.session_state
SessionKeys == {"authenticated", "username", "name"}

\* st.session_state of a session that has not run the script yet
EmptySessionState == [k \in {} |-> None]

\* app.py 12-18: a key that is not in the session state gets its default
init_session_state(ss) ==
    [k \in SessionKeys |->
        IF k \in DOMAIN ss THEN ss[k]
        ELSE IF k = "authenticated" THEN FALSE ELSE None]

\* the texts typed into the login form
Usernames == {"user", "admin", "User"}

Passwords == {"password123", "admin123", ""}

\* what made the script run: nothing but a rerun, the Login button of the
\* form with the two texts, or the Logout button
NoEvent == [kind |-> "none", username |-> "", password |-> ""]

LogoutEvent == [kind |-> "logout", username |-> "", password |-> ""]

SubmitEvent(username, password) ==
    [kind |-> "submit", username |-> username, password |-> password]

\* a check that accepts every password of the two accounts
valid_credentials_any_password(username, password) == username \in {"user", "admin"}

\* the two conditions of auth.py 49 and 54
valid_credentials(username, password) ==
    \/ username = "user" /\ password = "password123"
    \/ username = "admin" /\ password = "admin123"

\* a login that leaves the username as it was
login_state_without_username(ss, username) ==
    [ss EXCEPT !["authenticated"] = TRUE,
               !["name"] = IF username = "user" THEN "Regular User" ELSE "Admin User"]

\* auth.py 50-52 and 55-57: the three assignments of a successful login
login_state(ss, username) ==
    [ss EXCEPT !["authenticated"] = TRUE,
               !["username"] = username,
               !["name"] = IF username = "user" THEN "Regular User" ELSE "Admin User"]

\* a logout that leaves the name as it was
logout_state_keeps_name(ss) ==
    [ss EXCEPT !["authenticated"] = FALSE, !["username"] = None]

\* auth.py 71-73: the three assignments of the Logout button
logout_state(ss) ==
    [ss EXCEPT !["authenticated"] = FALSE, !["username"] = None, !["name"] = None]

\* custom_login() on the session state ss in a run made by event: the
\* session state it leaves, what it returns ("rerun" when st.rerun() ends
\* the run before a return), and the widget it has put into the sidebar
custom_login(ss, event) ==
    IF ~ss["authenticated"]
    THEN IF event.kind = "submit" /\ valid_credentials(event.username, event.password)
         THEN [session_state |-> login_state(ss, event.username),
               returned |-> "rerun", rendered |-> "login_form"]
         ELSE [session_state |-> ss, returned |-> "False", rendered |-> "login_form"]
    ELSE IF event.kind = "logout"
         THEN [session_state |-> logout_state(ss),
               returned |-> "rerun", rendered |-> "logout_button"]
         ELSE [session_state |-> ss, returned |-> "True", rendered |-> "logout_button"]

\* a script that goes on to the data whatever custom_login returns
after_login_ungated(returned) ==
    CASE returned = "rerun" -> "start"
      [] OTHER -> "load"

\* app.py 31: where the script goes after custom_login: back to its first
\* line after st.rerun(), on to load_data after True, to its end after False
after_login(returned) ==
    CASE returned = "rerun" -> "start"
      [] returned = "True" -> "load"
      [] OTHER -> "idle"

\* the five dashboard functions of app.py 40-53
DashboardFunctions ==
    {"show_transactions_dashboard", "show_rentals_dashboard",
     "show_area_analytics_dashboard", "show_sales_dashboard", "show_comparing_dashboard"}

\* the user of session s does something that makes the script run: the
\* buttons are those the last run has put on the page
Interact(s) ==
    /\ sessions[s].pc = "idle"
    /\ \E event \in {NoEvent}
                \cup (IF sessions[s].rendered = "login_form"
                      THEN {SubmitEvent(u, p) : u \in Usernames, p \in Passwords}
                      ELSE {})
                \cup (IF sessions[s].rendered = "logout_button" THEN {LogoutEvent} ELSE {}) :
          sessions' = [sessions EXCEPT ![s].pc = "start", ![s].event = event]
    /\ UNCHANGED <<transactions, rentals, out, disk, heap>>

\* app.py 12-18: the script starts and fills the session state; the calls of
\* the run before are forgotten
StartRun(s) ==
    /\ sessions[s].pc = "start"
    /\ LET ss == init_session_state(sessions[s].session_state)
       IN  sessions' = [sessions EXCEPT ![s].pc = "login",
                           ![s].session_state = ss,
                           ![s].authenticated_at_start = ss["authenticated"],
                           ![s].called = {},
                           ![s].returned = "none"]
    /\ UNCHANGED <<transactions, rentals, out, disk, heap>>

\* app.py 31: the call of custom_login; st.rerun() starts the script again
\* with no button pressed
CustomLogin(s) ==
    /\ sessions[s].pc = "login"
    /\ LET result == custom_login(sessions[s].session_state, sessions[s].event)
       IN  sessions' = [sessions EXCEPT
                           ![s].pc = after_login(result.returned),
                           ![s].session_state = result.session_state,
                           ![s].returned = result.returned,
                           ![s].rendered = result.rendered,
                           ![s].called = sessions[s].called \cup {"custom_login"},
                           ![s].last_event = sessions[s].event,
                           ![s].event = IF result.returned = "rerun" THEN NoEvent
                                        ELSE sessions[s].event,
                           ![s].logged_out =
                               sessions[s].logged_out
                                   \/ (sessions[s].session_state["authenticated"]
                                       /\ ~result.session_state["authenticated"])]
    /\ UNCHANGED <<transactions, rentals, out, disk, heap>>

\* app.py 35: the call of load_data; what it loads is followed in SpecSessions
CallLoadData(s) ==
    /\ sessions[s].pc = "load"
    /\ sessions' = [sessions EXCEPT ![s].pc = "dashboards",
                       ![s].called = sessions[s].called \cup {"load_data"}]
    /\ UNCHANGED <<transactions, rentals, out, disk, heap>>

\* app.py 37-53: the calls of the five dashboards, after which the script ends
CallDashboards(s) ==
    /\ sessions[s].pc = "dashboards"
    /\ sessions' = [sessions EXCEPT ![s].pc = "idle",
                       ![s].called = sessions[s].called \cup DashboardFunctions]
    /\ UNCHANGED <<transactions, rentals, out, disk, heap>>

\* every session opens the page: its script is about to run for the first
\* time on an empty session state.  called holds the functions the current
\* run has called, last_event what made the run of the last custom_login,
\* and logged_out whether the session has ever pressed Logout
InitAuth ==
    /\ transactions = NoTable
    /\ rentals = NoTable
    /\ out = NoRun
    /\ disk = <<>>
    /\ heap = <<>>
    /\ sessions = [s \in Sessions |->
                      [pc |-> "start", event |-> NoEvent, last_event |-> NoEvent,
                       session_state |-> EmptySessionState,
                       authenticated_at_start |-> FALSE, called |-> {},
                       returned |-> "none", rendered |-> "none", logged_out |-> FALSE]]

NextAuth ==
    \/ \E s \in Sessions : Interact(s)
    \/ \E s \in Sessions : StartRun(s)
    \/ \E s \in Sessions : CustomLogin(s)
    \/ \E s \in Sessions : CallLoadData(s)
    \/ \E s \in Sessions : CallDashboards(s)

SpecAuth == InitAuth /\ [][NextAuth]_vars

(***************************************************************************)
(* show_comparing_dashboard: the pages of the raw-data table               *)
(***************************************************************************)
\* most rows of merged_data: two pages of the largest page size
MaxPageRows == 101

\* the options of st.selectbox("Rows per page", ...)
PageSizes == {10, 25, 50, 100}

\* total_pages of a table of n rows
total_pages(n, page_size) ==
    LET pages == (n \div page_size) + (IF n % page_size > 0 THEN 1 ELSE 0)
    IN  IF pages > 1 THEN pages ELSE 1

start_idx(current_page, page_size) == (current_page - 1) * page_size

end_idx(current_page, page_size, n) ==
    LET stop == start_idx(current_page, page_size) + page_size
    IN  IF stop < n THEN stop ELSE n

\* DataFrame.iloc[start:stop] for 0 <= start and 0 <= stop: the rows at the
\* 0-based places start .. stop - 1, places past the end left out
iloc(rows, start, stop) ==
    LET last == IF stop < Len(rows) THEN stop ELSE Len(rows)
    IN  IF start >= last THEN <<>> ELSE SubSeq(rows, start + 1, last)

\* the rows of the table of the expander and the numbers of its caption,
\* for the values page_size and current_page of the two widgets
RawDataPage(sorted_data, page_size, current_page) ==
    LET n == Len(sorted_data)
        first == start_idx(current_page, page_size)
        stop == end_idx(current_page, page_size, n)
    IN  [op |-> "raw_data",
         sorted_data |-> sorted_data,
         page_size |-> page_size,
         total_pages |-> total_pages(n, page_size),
         current_page |-> current_page,
         start_idx |-> first,
         end_idx |-> stop,
         caption |-> [from |-> first + 1, to |-> stop, of |-> n],
         page |-> iloc(sorted_data, first, stop)]

\* one run of the expander "View Raw Investment Performance Data": the
\* user has chosen the rows per page, and a page that st.number_input
\* admits (min_value 1, max_value total_pages)
ViewRawData ==
    /\ out.op \in {"sorted_data", "raw_data"}
    /\ \E page_size \in PageSizes :
         \E current_page \in 1..total_pages(Len(out.sorted_data), page_size) :
            out' = RawDataPage(out.sorted_data, page_size, current_page)
    /\ UNCHANGED <<transactions, rentals, server>>

\* sorted_data of 0..MaxPageRows rows; a row is named by its place in the
\* sorted table
InitPages ==
    /\ transactions = EmptyFrame
    /\ rentals = EmptyFrame
    /\ \E n \in 0..MaxPageRows :
          out = [op |-> "sorted_data", sorted_data |-> [i \in 1..n |-> i]]
    /\ ServerIdle

NextPages == ViewRawData

SpecPages == InitPages /\ [][NextPages]_vars

(***************************************************************************)
(* prepare_merged_data beside the filter step of show_comparing_dashboard  *)
(***************************************************************************)
\* most rows of the transactions the two filter steps are compared on
MaxEquivalenceRows == 2

\* the step of the "Price Range (AED)" slider
PriceStep == 100000

\* the rows the two filter steps are compared on: the prices are a whole
\* number of slider steps apart
EquivalenceTransactionRows ==
    {r \in [instance_date : {Timestamp(2024, 1, 15)}, area_name_en : {"A", "B"},
            property_type_en : {"Land", "Villa"}, rooms_en : {"1 B/R"},
            actual_worth : {700000, 2000000}] :
        r.property_type_en = "Land" => r.actual_worth = 700000}

EquivalenceRental(area, sub_type) ==
    [area_name_en |-> area, ejari_property_sub_type_en |-> sub_type,
     contract_start_date |-> <<1, 2, 2024>>, annual_amount |-> 50000]

\* the rental tables the two filter steps are compared on
EquivalenceRentalTables ==
    {<<EquivalenceRental("A", "Flat")>>,
     <<EquivalenceRental("A", "Flat"), EquivalenceRental("B", "Villa")>>,
     <<EquivalenceRental("B", "Villa"), EquivalenceRental("A", "Villa")>>}

\* the values st.slider("Price Range (AED)", price_min, price_max,
\* (price_min, price_max), step=100000) is followed on: its default, the
\* whole range of the prices, and the range with the lower end one step up
PriceSliderValues(df) ==
    LET price_min == MinCol(df.rows, "actual_worth").num
        price_max == MaxCol(df.rows, "actual_worth").num
    IN  {PriceRange(price_min, price_max, TRUE)}
            \cup (IF price_min + PriceStep <= price_max
                  THEN {PriceRange(price_min + PriceStep, price_max, TRUE)}
                  ELSE {})

\* the values the sidebar widgets of show_comparing_dashboard offer, with
\* the price slider
EquivalenceSelections ==
    LET common_areas ==
            SelectSeq(SortedUnique(transactions.rows, "area_name_en", AreaNames),
                LAMBDA a : \E i \in DOMAIN rentals.rows : rentals.rows[i].area_name_en = a)
    IN  [selected_area : {All} \cup Range(common_areas),
         selected_property_type :
             {All} \cup Range(SortedUnique(transactions.rows, "property_type_en",
                                           PropertyTypeNames)),
         selected_rooms : {All} \cup {transactions.rows[i].rooms_en :
                                          i \in DOMAIN transactions.rows},
         price_range : PriceSliderValues(transactions),
         selected_price_range : {"All", "Up to 1M AED", "1M-3M AED"}]

\* min_price=0, max_price=float('inf')
DefaultPriceRange == PriceRange(0, 0, FALSE)

\* the price arguments prepare_merged_data gets for the selections of the
\* dashboard: min_price and max_price as lines 309-327 leave them, or, when
\* nothing is chosen (bracket 'All', slider at its default), the defaults
PriceArguments(df, widgets) ==
    {BracketBounds(widgets.selected_price_range, widgets.price_range)}
        \cup (IF /\ widgets.selected_price_range = "All"
                 /\ widgets.price_range =
                        PriceRange(MinCol(df.rows, "actual_worth").num,
                                   MaxCol(df.rows, "actual_worth").num, TRUE)
              THEN {DefaultPriceRange}
              ELSE {})

\* filtered_transactions, filtered_rentals and merged_data of lines 400-456
InlineFiltering(sel) ==
    LET filtered_transactions ==
            CompareFilterTransactions(transactions, sel, sel.selected_price_range # "All")
        filtered_rentals == CompareFilterRentals(rentals, sel)
    IN  [filtered_transactions |-> filtered_transactions,
         filtered_rentals |-> filtered_rentals,
         merged_data |-> MergedData(filtered_transactions, filtered_rentals)]

\* the three tables prepare_merged_data returns
prepare_merged_data(sel) ==
    LET filtered_transactions == CompareFilterTransactions(transactions, sel, TRUE)
        filtered_rentals == CompareFilterRentals(rentals, sel)
    IN  [filtered_transactions |-> filtered_transactions,
         filtered_rentals |-> filtered_rentals,
         merged_data |-> MergedData(filtered_transactions, filtered_rentals)]

\* the filter step of one run of show_comparing_dashboard, and a call of
\* prepare_merged_data on the same tables with the same selections
FilterBothWays ==
    /\ \E widgets \in EquivalenceSelections :
         \E price \in PriceArguments(transactions, widgets) :
            LET sel == [selected_area |-> widgets.selected_area,
                        selected_property_type |-> widgets.selected_property_type,
                        selected_rooms |-> widgets.selected_rooms,
                        selected_price_range |-> widgets.selected_price_range,
                        price |-> BracketBounds(widgets.selected_price_range,
                                                widgets.price_range)]
                arguments == [sel EXCEPT !.price = price]
            IN  out' = [op |-> "both",
                        widgets |-> widgets,
                        arguments |-> arguments,
                        inline |-> InlineFiltering(sel),
                        prepared |-> prepare_merged_data(arguments)]
    /\ UNCHANGED <<transactions, rentals, server>>

InitEquivalence ==
    /\ transactions \in [columns : {CompareTransactionColumns},
                         datetime : {{"instance_date"}},
                         rows : NonEmptySeqsUpTo(EquivalenceTransactionRows,
                                                 MaxEquivalenceRows)]
    /\ rentals \in [columns : {CompareRentalColumns},
                    datetime : {{}},
                    rows : EquivalenceRentalTables]
    /\ out = NoRun
    /\ ServerIdle

NextEquivalence == FilterBothWays

SpecEquivalence == InitEquivalence /\ [][NextEquivalence]_vars

(***************************************************************************)
(* calculate_roi and the ROI calculator of show_sales_dashboard            *)
(***************************************************************************)
\* most steps of the two number inputs above 0
MaxRoiSteps == 2

\* the purchase prices and monthly rents typed into the number inputs
\* (min_value 0.0): 0 and whole multiples of an amount
PurchasePrices == {k * 500000 : k \in 0..MaxRoiSteps}

MonthlyRents == {k * 3000 : k \in 0..MaxRoiSteps}

\* the values of st.slider(min_value=1.0, max_value=30.0, step=0.5) / 100 and
\* of st.slider(min_value=0.0, max_value=20.0, step=0.5) / 100, a percentage
\* of h halves being the fraction h/200
ExpensesPercents == {Frac(h, 200) : h \in 2..60}

VacancyRates == {Frac(h, 200) : h \in 0..40}

\* a fraction with a positive denominator in lowest terms
Reduced(x) ==
    LET g == GCD(x.den, x.num % x.den)
    IN  Frac(x.num \div g, x.den \div g)

\* x * y, x - y and x / y for y # 0, on fractions in lowest terms
FracTimes(x, y) ==
    LET a == Reduced(Frac(x.num, y.den))
        b == Reduced(Frac(y.num, x.den))
    IN  Frac(a.num * b.num, a.den * b.den)

FracMinus(x, y) == Reduced(Frac(x.num * y.den - y.num * x.den, x.den * y.den))

FracOver(x, y) ==
    IF y.num > 0 THEN FracTimes(x, Frac(y.den, y.num))
    ELSE FracTimes(x, Frac(0 - y.den, 0 - y.num))

\* calculate_roi(purchase_price, annual_rent, annual_expenses_percent,
\* vacancy_rate) on Python floats: the division by a price 0.0 raises
calculate_roi(purchase_price, annual_rent, annual_expenses_percent, vacancy_rate) ==
    LET annual_expenses == FracTimes(purchase_price, annual_expenses_percent)
        effective_annual_rent == FracTimes(annual_rent, FracMinus(Frac(1, 1), vacancy_rate))
        cash_flow == FracMinus(effective_annual_rent, annual_expenses)
    IN  IF purchase_price.num = 0
        THEN [error |-> "ZeroDivisionError"]
        ELSE [error |-> "none",
              roi_percent |-> FracTimes(FracOver(cash_flow, purchase_price), Frac(100, 1)),
              cash_flow |-> cash_flow]

\* cap_rate = (annual_rent * (1 - vacancy_rate) / property_price) * 100
cap_rate(annual_rent, vacancy_rate, property_price) ==
    IF property_price.num = 0
    THEN [error |-> "ZeroDivisionError"]
    ELSE [error |-> "none",
          cap_rate |-> FracTimes(FracOver(FracTimes(annual_rent,
                                                    FracMinus(Frac(1, 1), vacancy_rate)),
                                          property_price),
                                 Frac(100, 1))]

\* the values of the four widgets of the ROI calculator
RoiInputs ==
    [property_price : {Frac(p, 1) : p \in PurchasePrices},
     annual_rent : {Frac(m * 12, 1) : m \in MonthlyRents},
     expenses_percent : ExpensesPercents,
     vacancy_rate : VacancyRates]

\* the ROI calculator on the values typed into its two number inputs and
\* set on its two sliders: the first statement that raises ends the run
RoiCalculator ==
    /\ out.op = "roi_inputs"
    /\ LET i == out.inputs
           roi == calculate_roi(i.property_price, i.annual_rent, i.expenses_percent,
                                i.vacancy_rate)
           cap == cap_rate(i.annual_rent, i.vacancy_rate, i.property_price)
       IN  out' = IF roi.error # "none"
                  THEN [op |-> "roi", inputs |-> i, error |-> roi.error]
                  ELSE IF cap.error # "none"
                  THEN [op |-> "roi", inputs |-> i, error |-> cap.error]
                  ELSE [op |-> "roi", inputs |-> i, error |-> "none",
                        roi_percent |-> roi.roi_percent,
                        annual_cash_flow |-> roi.cash_flow,
                        cap_rate |-> cap.cap_rate]
    /\ UNCHANGED <<transactions, rentals, server>>

InitRoi ==
    /\ transactions = EmptyFrame
    /\ rentals = EmptyFrame
    /\ \E inputs \in RoiInputs : out = [op |-> "roi_inputs", inputs |-> inputs]
    /\ ServerIdle

NextRoi == RoiCalculator

SpecRoi == InitRoi /\ [][NextRoi]_vars

(***************************************************************************)
(* Claims on the sales dashboard                                           *)
(***************************************************************************)
\* every order in which the filter statements can run
FilterOrders ==
    {[i \in DOMAIN SalesFilterOrder |-> SalesFilterOrder[p[i]]] :
        p \in Permutations(DOMAIN SalesFilterOrder)}

\* C4: when the filtered view is empty, the grouped aggregations of the
\* dashboard give empty summary tables and the run raises no error.
C4_EmptyViewGivesEmptyTables ==
    (out.op = "sales" /\ out.filtered_data = <<>>) =>
        /\ out.error = "none"
        /\ out.area_metrics_df.rows = <<>>
        /\ out.segment_df.rows = <<>>

\* C5: a mean, median, min or max over zero rows is reported as undefined and
\* never as 0; only the count over zero rows is 0.
C5_EmptyReductionIsUndefined ==
    /\ (out.op = "sales" /\ out.total_transactions = 0) => IsNaN(out.avg_deal_size)
    /\ (out.op = "statistics" /\ out.df_rows = <<>>) =>
          /\ IsNaN(out.statistics.mean)
          /\ IsNaN(out.statistics.median)
          /\ IsNaN(out.statistics.min)
          /\ IsNaN(out.statistics.max)
          /\ out.statistics.count = 0

\* C6: the group keys of the price-segment tables are exactly the segments
\* that occur in the filtered view.
C6_KeysAreTheObservedSegments ==
    (out.op = "sales" /\ out.error = "none") =>
        LET observed_segments ==
                {Cut(out.filtered_data[i].actual_worth) : i \in DOMAIN out.filtered_data}
                    \ {NaN}
        IN  /\ {r.Price_Segment : r \in Range(out.segment_df.rows)} = observed_segments
            /\ {r.Price_Segment : r \in Range(out.segment_value.rows)} = observed_segments

\* C7: the group counts of the area table add up to the number of rows of
\* the filtered view, also when some rows have no area.
C7_GroupCountsAddUp ==
    out.op = "sales" =>
        SumCol(out.area_metrics_df.rows, "No_of_Deals") = Len(out.filtered_data)

\* C8: the filters combine as a logical AND that does not depend on their
\* order: run in any order, the filter statements give the filtered view of
\* the dashboard.
C8_FilterOrderIrrelevant ==
    out.op = "sales" =>
        \A order \in FilterOrders :
            ApplyInOrder(transactions, transactions.rows, order, out.sel) = out.filtered_data

\* two filters are selected and each of them removes a row the other keeps
C8_Witness ==
    /\ out.op = "sales"
    /\ out.sel.selected_area # All
    /\ out.sel.selected_property_type # All
    /\ \E i \in DOMAIN transactions.rows :
          /\ transactions.rows[i].area_name_en = out.sel.selected_area
          /\ transactions.rows[i].property_type_en # out.sel.selected_property_type
    /\ \E i \in DOMAIN transactions.rows :
          /\ transactions.rows[i].area_name_en # out.sel.selected_area
          /\ transactions.rows[i].property_type_en = out.sel.selected_property_type

\* C9: filtering is idempotent: the same selections applied to the filtered
\* view return that view, same rows in the same order.
C9_FilterIdempotent ==
    out.op = "sales" =>
        ApplySalesFilters([columns |-> transactions.columns, rows |-> out.filtered_data],
                          out.sel) = out.filtered_data

\* a filter that removed a row and kept one
C9_Witness ==
    /\ out.op = "sales"
    /\ out.filtered_data # <<>>
    /\ Len(out.filtered_data) < Len(transactions.rows)
    /\ Len(out.sel.date_range) = 2

(***************************************************************************)
(* Claims on the rentals and the comparing dashboards                      *)
(***************************************************************************)
\* a rental row satisfies the property type selection when its sub type is
\* the selected type or one of the sub types the mapping gives for it
RentalTypeMatches(r, selected_property_type) ==
    r.ejari_property_sub_type_en \in
        (IF selected_property_type \in DOMAIN property_mapping
         THEN property_mapping[selected_property_type]
         ELSE {selected_property_type})

\* C1: every row of the filtered views is a row of its source table and
\* satisfies all selected predicates, the property type selection on the
\* rentals included.
C1_ViewSatisfiesSelections ==
    out.op = "merged" =>
        /\ \A r \in Range(out.filtered_transactions) :
              /\ r \in Range(transactions.rows)
              /\ out.sel.selected_area # All => r.area_name_en = out.sel.selected_area
              /\ out.sel.selected_property_type # All =>
                     r.property_type_en = out.sel.selected_property_type
              /\ out.sel.selected_rooms # All => r.rooms_en = out.sel.selected_rooms
              /\ InPriceRange(r.actual_worth, out.sel.price)
        /\ \A r \in Range(out.filtered_rentals) :
              /\ r \in Range(rentals.rows)
              /\ out.sel.selected_area # All => r.area_name_en = out.sel.selected_area
              /\ out.sel.selected_property_type # All =>
                     RentalTypeMatches(r, out.sel.selected_property_type)

\* C2: a filter on a field that the table does not have fails with
\* SchemaMismatch naming the field: the bedrooms filter on the rentals, which
\* have no rooms_en column, is never passed over in silence.
C2_AbsentFieldIsSchemaMismatch ==
    (/\ out.op = "comparing"
     /\ out.sel.selected_rooms # All
     /\ "rooms_en" \notin rentals.columns) =>
        out.error = "SchemaMismatch: rooms_en"

\* C3: a run of a dashboard leaves the tables it was given as they were.
C3_SourceNeverMutated ==
    [][transactions' = transactions /\ rentals' = rentals]_vars

\* the place of a key in the ascending lexical order of the area names
AreaRank(k) == CHOOSE i \in DOMAIN AreaNames : AreaNames[i] = k

\* C10: the top lists are in descending order of their value, and rows with
\* the same value are in ascending lexical order of their key.
C10_TopNOrder ==
    out.op = "rentals" =>
        /\ \A i, j \in DOMAIN out.avg_rent_by_area :
              i < j =>
                  \/ FracGt(out.avg_rent_by_area[i].Mean, out.avg_rent_by_area[j].Mean)
                  \/ /\ FracEq(out.avg_rent_by_area[i].Mean, out.avg_rent_by_area[j].Mean)
                     /\ AreaRank(out.avg_rent_by_area[i].Key)
                            < AreaRank(out.avg_rent_by_area[j].Key)
        /\ \A i, j \in DOMAIN out.area_counts :
              i < j =>
                  \/ out.area_counts[i].Count > out.area_counts[j].Count
                  \/ /\ out.area_counts[i].Count = out.area_counts[j].Count
                     /\ AreaRank(out.area_counts[i].Key) < AreaRank(out.area_counts[j].Key)

C12_ReversedRangeIsInvalidRange ==
    (/\ out.op = "merged"
     /\ out.sel.price.capped
     /\ out.sel.price.min_price > out.sel.price.max_price) =>
        out.error = "InvalidRange"

(***************************************************************************)
(* Claims on missing values                                                *)
(***************************************************************************)
\* C13: a row whose value is missing never matches a set-membership or a
\* substring predicate, and the predicate raises no error: the row is not in
\* the result of the area multiselect, not in the rentals that the property
\* type mapping keeps, and not counted as off-plan.
C13_MissingNeverMatches ==
    /\ (out.op = "area_analytics" /\ out.selected_areas # {}) =>
          /\ out.error = "none"
          /\ \A r \in Range(out.filtered_area_data) : r.area_name_en # NaN
    /\ (out.op = "merged" /\ out.sel.selected_property_type \in DOMAIN property_mapping) =>
          /\ out.error = "none"
          /\ \A r \in Range(out.filtered_rentals) : r.ejari_property_sub_type_en # NaN
    /\ (out.op = "sales" /\ out.offplan_count # <<>>) =>
          out.offplan_count[1] <=
              Cardinality({i \in DOMAIN out.filtered_data :
                              ~out.filtered_data[i].reg_type_en.na})

\* the filtered view of a sales run holds a row without registration type
\* and a row that counts as off-plan
C13_Witness ==
    /\ out.op = "sales"
    /\ out.offplan_count = <<1>>
    /\ \E i \in DOMAIN out.filtered_data : out.filtered_data[i].reg_type_en.na
    /\ \E i \in DOMAIN out.filtered_data : out.filtered_data[i].reg_type_en = OffPlanText

(***************************************************************************)
(* Claims on period buckets                                                *)
(***************************************************************************)
\* the number of the calendar bucket of a date: the day, the week from
\* Monday, the month, the quarter or the year, counted from the year 1
BucketIndex(ts, freq) ==
    CASE freq = "D" -> Ordinal(ts)
      [] freq = "W" -> (Ordinal(ts) - 1) \div 7
      [] freq = "M" -> 12 * ts.year + ts.month - 1
      [] freq = "Q" -> 4 * ts.year + (ts.month - 1) \div 3
      [] freq = "Y" -> ts.year

\* C14: for every granularity the bucket key depends on the date and the
\* granularity only: two dates of the same calendar bucket get the same key
\* and the same text, and the text of an earlier bucket sorts before the
\* text of a later one.
C14_BucketKeyIsChronological ==
    (out.op = "periods" /\ out.date_column = "instance_date") =>
        \A i, j \in DOMAIN transactions.rows :
            LET a == transactions.rows[i]
                b == transactions.rows[j]
            IN  (a.instance_date # NaT /\ b.instance_date # NaT) =>
                   /\ BucketIndex(a.instance_date, out.period)
                          = BucketIndex(b.instance_date, out.period)
                        => /\ a.time_period = b.time_period
                           /\ PeriodStr(a.time_period) = PeriodStr(b.time_period)
                   /\ BucketIndex(a.instance_date, out.period)
                          < BucketIndex(b.instance_date, out.period)
                        => LexLess(PeriodStr(a.time_period), PeriodStr(b.time_period))

\* a table bucketed by week holds two days of one week, and a day of
\* September followed by a day of October
C14_Witness ==
    /\ out.op = "periods"
    /\ out.date_column = "instance_date"
    /\ out.period = "W"
    /\ Len(transactions.rows) = 2
    /\ \/ /\ transactions.rows[1].instance_date = Timestamp(2024, 1, 1)
          /\ transactions.rows[2].instance_date = Timestamp(2024, 1, 7)
          /\ transactions.rows[1].time_period = transactions.rows[2].time_period
       \/ /\ transactions.rows[1].instance_date = Timestamp(2024, 9, 30)
          /\ transactions.rows[2].instance_date = Timestamp(2024, 10, 1)
          /\ transactions.rows[1].time_period = transactions.rows[2].time_period

\* C15: period bucketing drops the records whose date cannot be parsed and
\* returns the number of dropped records together with the table.
C15_UnparsableDroppedAndCounted ==
    (out.op = "periods" /\ out.date_column = "instance_date") =>
        /\ \A i \in DOMAIN out.returned[1].rows : out.returned[1].rows[i].instance_date # NaT
        /\ Len(out.returned) = 2
        /\ out.returned[2] = out.rows_in - Len(out.returned[1].rows)

(***************************************************************************)
(* Claims on loading and on the sessions                                   *)
(***************************************************************************)
\* C16: the loader reports the rows that fail to parse: after load_data on a
\* transactions.csv with k rows whose instance_date is unparsable, the value
\* handed to the caller holds those k rows or their number next to the two
\* tables.
C16_UnparsableRowsReported ==
    out.op = "load" =>
        /\ Len(out.returned) = 3
        /\ out.returned[3] = out.unparsable

\* C18: with the script runs of the sessions interleaved, a session that has
\* loaded its tables finds a period column in them only if it wrote the
\* column itself: the periods are those of a granularity it has chosen.
C18_SessionsAreIsolated ==
    \A s \in DOMAIN sessions :
        sessions[s].pc = "loaded" =>
            LET t == heap[sessions[s].data][1][1]
            IN  "period" \in t.columns =>
                   \E g \in sessions[s].chosen :
                       \A i \in DOMAIN t.rows :
                           PeriodStr(t.rows[i].period) =
                               PeriodStr(to_period(t.rows[i].instance_date, granularity_map[g]))

\* one session has written the yearly periods into the tables of its
\* session state while another, which has chosen the monthly periods only,
\* has just loaded tables without a period column
C18_Witness ==
    \E s, t \in DOMAIN sessions :
        /\ s # t
        /\ sessions[s].session_state # <<>>
        /\ sessions[s].chosen = {"Yearly"}
        /\ "period" \in heap[sessions[s].session_state[1]][1][1].columns
        /\ sessions[t].pc = "loaded"
        /\ sessions[t].chosen = {"Monthly"}
        /\ heap[sessions[t].data][1][1].rows # <<>>
        /\ "period" \notin heap[sessions[t].data][1][1].columns

(***************************************************************************)
(* Claims on values that cannot be computed                                *)
(***************************************************************************)
\* the areas area_appreciation has a rate for, of those the model names
KnownAppreciationAreas == {"Dubai Marina", "Downtown Dubai"}

\* C17: no computation puts a guessed number where a result cannot be
\* computed: in the merged table the yield of a price that is not positive
\* and the appreciation rate of an area without a known rate are missing.
C17_NoGuessedSubstitute ==
    out.op = "comparing" =>
        \A i \in DOMAIN out.merged_data :
            LET r == out.merged_data[i]
            IN  /\ r.actual_worth.num <= 0 => IsNaN(r.gross_yield)
                /\ r.area_name_en \notin KnownAppreciationAreas => IsNaN(r.appreciation_rate)

(***************************************************************************)
(* Claims on the sums per area and on the order of the view                *)
(***************************************************************************)
\* the sum of a column over the rows of the given positions
RECURSIVE SumAt(_, _, _)
SumAt(rows, positions, col) ==
    IF positions = {} THEN 0
    ELSE LET i == CHOOSE x \in positions : TRUE
         IN  rows[i][col] + SumAt(rows, positions \ {i}, col)

\* the records of the scenario: prices 100 to 500 in the areas A, A, B, B, B
ScenarioRows ==
    [i \in 1..5 |->
        [area_name_en |-> IF i <= 2 THEN "A" ELSE "B", actual_worth |-> 100 * i]]

\* the scenario's view: the records with a price of at least 200
ScenarioView ==
    BoolIndex(ScenarioRows, [i \in DOMAIN ScenarioRows |-> ScenarioRows[i].actual_worth >= 200])

\* C19: grouping the filtered view by area and summing the price gives, for
\* each area of the view, one row with exactly the sum of the prices of the
\* view's records of that area, and no other row; on the scenario's view of
\* 4 records the sums are A: 200 and B: 1200.
C19_SumPerArea ==
    /\ out.op = "sales" =>
          /\ \A k \in Range(AreaNames) :
                LET positions == {i \in DOMAIN out.filtered_data :
                                     out.filtered_data[i].area_name_en = k}
                    found == {j \in DOMAIN out.area_metrics_df.rows :
                                 out.area_metrics_df.rows[j].Area = k}
                IN  IF positions = {} THEN found = {}
                    ELSE /\ Cardinality(found) = 1
                         /\ \A j \in found :
                               out.area_metrics_df.rows[j].Total_Sales =
                                   SumAt(out.filtered_data, positions, "actual_worth")
          /\ \A j \in DOMAIN out.area_metrics_df.rows :
                out.area_metrics_df.rows[j].Area \in Range(AreaNames)
    /\ Len(ScenarioView) = 4
    /\ [j \in DOMAIN AreaMetrics(ScenarioView) |->
           <<AreaMetrics(ScenarioView)[j].Area, AreaMetrics(ScenarioView)[j].Total_Sales>>]
          = << <<"A", 200>>, <<"B", 1200>> >>

\* the area filter has removed a record, and the view holds two records of
\* one area with different prices whose sum is in the table
C19_Witness ==
    /\ out.op = "sales"
    /\ out.sel.selected_area = "A"
    /\ Len(out.filtered_data) < Len(transactions.rows)
    /\ \E j \in DOMAIN out.area_metrics_df.rows :
          /\ out.area_metrics_df.rows[j].No_of_Deals = 2
          /\ out.area_metrics_df.rows[j].Total_Sales = 300

\* C20: the filtered view keeps the order of the source: it is the sequence
\* of the source rows at increasing positions.
C20_ViewKeepsSourceOrder ==
    out.op = "sales" =>
        \E f \in [DOMAIN out.filtered_data -> DOMAIN transactions.rows] :
            /\ \A i, j \in DOMAIN f : i < j => f[i] < f[j]
            /\ \A i \in DOMAIN f : out.filtered_data[i] = transactions.rows[f[i]]

\* a filter has removed the first row and kept two different rows
C20_Witness ==
    /\ out.op = "sales"
    /\ Len(transactions.rows) = 3
    /\ Len(out.filtered_data) = 2
    /\ out.filtered_data[1] # out.filtered_data[2]
    /\ out.filtered_data[1] = transactions.rows[2]
    /\ out.filtered_data[2] = transactions.rows[3]

(***************************************************************************)
(* Claims on the login                                                     *)
(***************************************************************************)
\* C21: data is loaded only when logged in: a run calls load_data or a
\* dashboard only if authenticated was True when the run started, and the
\* session is still authenticated then; a session that has logged out and
\* not logged in again has called neither.
C21_LoadOnlyWhenLoggedIn ==
    \A s \in DOMAIN sessions :
        (sessions[s].called \cap ({"load_data"} \cup DashboardFunctions) # {}
            \/ sessions[s].pc \in {"load", "dashboards"}) =>
                /\ sessions[s].authenticated_at_start
                /\ sessions[s].session_state["authenticated"]

\* a session that has logged out and logged in again has loaded the data and
\* shown the dashboards
C21_Witness ==
    \E s \in DOMAIN sessions :
        /\ sessions[s].logged_out
        /\ sessions[s].pc = "idle"
        /\ sessions[s].called = {"custom_login", "load_data"} \cup DashboardFunctions

\* C23: once the script has filled the session state, authenticated is True
\* exactly when username and name are both set, and then the two are
\* ('user', 'Regular User') or ('admin', 'Admin User').
C23_SessionStateConsistent ==
    \A s \in DOMAIN sessions :
        LET ss == sessions[s].session_state
        IN  DOMAIN ss = SessionKeys =>
               /\ ss["authenticated"] <=> (ss["username"] # None /\ ss["name"] # None)
               /\ ss["authenticated"] =>
                      <<ss["username"], ss["name"]>> \in
                          {<<"user", "Regular User">>, <<"admin", "Admin User">>}

\* one session is logged in as admin after a logout while another has just
\* been refused
C23_Witness ==
    \E s, t \in DOMAIN sessions :
        /\ sessions[s].logged_out
        /\ sessions[s].session_state = [authenticated |-> TRUE, username |-> "admin",
                                        name |-> "Admin User"]
        /\ sessions[t].returned = "False"
        /\ sessions[t].last_event.kind = "submit"

\* C24: in every step of a session, a session that is not authenticated
\* becomes authenticated only in a call of custom_login made by the login form with ('user', 'password123')
\* or ('admin', 'admin123'); with any other pair the call leaves the session
\* state as it is and returns False.
C24_OnlyValidCredentialsLogIn ==
    [][\A s \in DOMAIN sessions :
          LET a == sessions[s]
              b == sessions'[s]
              exact == <<a.event.username, a.event.password>> \in
                           {<<"user", "password123">>, <<"admin", "admin123">>}
          IN  (DOMAIN a.session_state = SessionKeys /\ ~a.session_state["authenticated"]) =>
                 /\ b.session_state["authenticated"] =>
                        a.pc = "login" /\ a.event.kind = "submit" /\ exact
                 /\ (a.pc = "login" /\ b # a /\ a.event.kind = "submit" /\ ~exact) =>
                        /\ b.session_state = a.session_state
                        /\ b.returned = "False"]_vars

\* the form was sent with the name of one account and the password of the
\* other, and the session is still not authenticated
C24_Witness ==
    \E s \in DOMAIN sessions :
        /\ sessions[s].last_event = SubmitEvent("admin", "password123")
        /\ sessions[s].returned = "False"
        /\ sessions[s].pc = "idle"
        /\ ~sessions[s].session_state["authenticated"]

\* C25: the Logout button of an authenticated session leaves the session
\* state of a session that has just started, authenticated False and
\* username and name None; a session that has logged out is logged in again
\* by the form with valid credentials.
C25_LogoutRestoresInitialState ==
    [][\A s \in DOMAIN sessions :
          LET a == sessions[s]
              b == sessions'[s]
          IN  (a.pc = "login" /\ b # a) =>
                 /\ (a.session_state["authenticated"] /\ a.event.kind = "logout") =>
                        b.session_state =
                            [authenticated |-> FALSE, username |-> None, name |-> None]
                 /\ (a.logged_out /\ ~a.session_state["authenticated"]
                        /\ a.event \in {SubmitEvent("user", "password123"),
                                        SubmitEvent("admin", "admin123")}) =>
                        b.session_state["authenticated"]]_vars

\* a session is logged in as user by the form after it has logged out
C25_Witness ==
    \E s \in DOMAIN sessions :
        /\ sessions[s].logged_out
        /\ sessions[s].last_event = SubmitEvent("user", "password123")
        /\ sessions[s].session_state["authenticated"]
        /\ sessions[s].session_state["username"] = "user"

(***************************************************************************)
(* Claims on the previous period of the sales dashboard                    *)
(***************************************************************************)
\* C22: the previous-period table has the filters of the current period
\* other than the date range: every row of previous_period_data has the
\* selected area, the selected property type and the selected project.
C22_PreviousPeriodHasSameFilters ==
    (out.op = "sales" /\ Len(out.sel.date_range) = 2) =>
        \A i \in DOMAIN out.previous_period_data :
            LET r == out.previous_period_data[i]
            IN  /\ out.sel.selected_area # All => r.area_name_en = out.sel.selected_area
                /\ out.sel.selected_property_type # All =>
                       r.property_type_en = out.sel.selected_property_type
                /\ out.sel.selected_project # All =>
                       r.project_name_en = out.sel.selected_project

\* C26: for a date range [start, end] with start <= end the previous period
\* ends on the day before start, has as many days as [start, end], and has
\* no day in common with it.
C26_PreviousPeriodAdjacentSameLength ==
    (out.op = "sales" /\ Len(out.sel.date_range) = 2) =>
        LET start == out.sel.date_range[1]
            end == out.sel.date_range[2]
            previous_start == out.previous_period[1]
            previous_end == out.previous_period[2]
        IN  /\ start <= end
            /\ previous_end = start - 1
            /\ Cardinality(previous_start..previous_end) = Cardinality(start..end)
            /\ (previous_start..previous_end) \cap (start..end) = {}

\* a range of two days whose previous period holds a sale
C26_Witness ==
    /\ out.op = "sales"
    /\ out.sel.date_range = <<2, 3>>
    /\ out.previous_period = <<0, 1>>
    /\ out.previous_period_data # <<>>
    /\ out.filtered_data # <<>>

(***************************************************************************)
(* Claims on the pages of the raw-data table                               *)
(***************************************************************************)
\* the rows of page p of the table of the state
PageRows(p) ==
    Range(iloc(out.sorted_data,
               start_idx(p, out.page_size),
               end_idx(p, out.page_size, Len(out.sorted_data))))

\* C27: for every table length n >= 0, page size and page p in
\* 1..total_pages: 0 <= start_idx <= end_idx <= n, the rows of different
\* pages are disjoint, the pages together hold every row of the sorted
\* table exactly once, and the caption "Showing start_idx+1 - end_idx of n"
\* names a non-empty range of rows that exist.
C27_PagesPartitionAndCaptionNamesRows ==
    out.op = "raw_data" =>
        LET n == Len(out.sorted_data)
            pages == 1..out.total_pages
        IN  /\ 0 <= out.start_idx
            /\ out.start_idx <= out.end_idx
            /\ out.end_idx <= n
            /\ Range(out.page) = PageRows(out.current_page)
            /\ Len(out.page) = Cardinality(Range(out.page))
            /\ \A p \in pages : \A q \in pages :
                   p # q => PageRows(p) \cap PageRows(q) = {}
            /\ UNION {PageRows(p) : p \in pages} = Range(out.sorted_data)
            /\ 1 <= out.caption.from
            /\ out.caption.from <= out.caption.to
            /\ out.caption.to <= out.caption.of
            /\ out.caption.of = n

(***************************************************************************)
(* Claims on the two filter steps of the comparing dashboard               *)
(***************************************************************************)
\* C28: for the same tables and the same area, property type, rooms and
\* price selections, prepare_merged_data and the filter step of
\* show_comparing_dashboard give the same filtered transactions, the same
\* filtered rentals and the same merged table by area.
C28_PrepareMergedDataEqualsInlineFilter ==
    out.op = "both" =>
        /\ out.prepared.filtered_transactions = out.inline.filtered_transactions
        /\ out.prepared.filtered_rentals = out.inline.filtered_rentals
        /\ out.prepared.merged_data = out.inline.merged_data

(***************************************************************************)
(* Claims on the ROI calculator                                            *)
(***************************************************************************)
\* C29: for every purchase price >= 0, monthly rent >= 0, expenses of 1 to
\* 30 % and vacancy of 0 to 20 % the ROI calculator raises nothing,
\* cash_flow is annual_rent * (1 - vacancy_rate) - purchase_price *
\* annual_expenses_percent, and roi_percent is cash_flow / purchase_price * 100.
C29_RoiCalculatorNeverRaises ==
    out.op = "roi" =>
        /\ out.error = "none"
        /\ LET i == out.inputs
               rent_200 == i.annual_rent.num * (200 - i.vacancy_rate.num)
               expenses_200 == i.property_price.num * i.expenses_percent.num
           IN  /\ out.annual_cash_flow.num * 200
                      = (rent_200 - expenses_200) * out.annual_cash_flow.den
               /\ out.roi_percent.num * out.annual_cash_flow.den
                          * (i.property_price.num \div 100)
                      = out.annual_cash_flow.num * out.roi_percent.den

====
